---- MODULE Spec2Model ----
(***************************************************************************)
(* Model of the onetagger-cli entry point (crates/onetagger-cli/src/main.rs)*)
(* as a state machine: the parsed command line, the position of main, the  *)
(* resolved configuration, the external command being built, and what the  *)
(* run has printed, logged and returned.                                    *)
(*                                                                          *)
(* Text whose characters the code inspects (comma separated lists, the     *)
(* line read from the terminal, process output) is a sequence of Unicode   *)
(* code points or of byte values; text the code only passes along (paths,  *)
(* ids, messages) is a TLA+ string.                                        *)
(* Option<T> is a sequence of length 0 (None) or 1 (Some).                  *)
(***************************************************************************)
EXTENDS Integers, Sequences, FiniteSets

VARIABLES
    cli,            \* the parsed command line (Cli)
    pc,             \* the position of main
    logging,        \* whether onetagger_shared::setup() has run
    loaded,         \* Option: get_at_config's `config` as loaded, before the overrides
    config,         \* Option: the resolved TaggerConfig / the AudioFeaturesConfig
    subfolders,     \* Option: the audiofeatures local `subfolders`
    spotify,        \* Option: the cached Spotify token
    file_list_call, \* Option: the arguments of AudioFileInfo::get_file_list
    files,          \* Option: the files handed to the engine
    created_dirs,   \* the directories create_dir_all has created
    cmd,            \* Option: the std::process::Command as built so far
    spawns,         \* the number of calls of Command::output
    output,         \* Option: the std::process::Output of the child
    stdout,         \* what the run has printed, one entry per println!
    log,            \* what the run has logged
    result,         \* Option: how main ended (Ok, Err or a panic)
    env,            \* what the run has found in its environment (facts, by name)
    rx,             \* Option: the progress channel the engine returned
    engine,         \* Option: the delegated engine (what it still sends, its state)
    start,          \* Option: the timestamp taken before the monitor loop
    renamer,        \* Option: the renamer flow (its mapping, the calls made)
    auth,           \* Option: the Spotify authorization flow
    exit_code,      \* Option: the code std::process::exit was called with
    ui              \* Option: the StartContext main called start_all with

(* The variables of the flows after the hand-off to an engine. *)
run_vars == <<rx, engine, start, renamer, auth, exit_code, ui>>

vars == <<cli, pc, logging, loaded, config, subfolders, spotify, file_list_call, files,
          created_dirs, cmd, spawns, output, stdout, log, result, env, run_vars>>

----------------------------------------------------------------------------
(* Option<T> *)

None == <<>>

Some(x) == <<x>>

is_some(o) == o # <<>>

unwrap(o) == o[1]

----------------------------------------------------------------------------
(* f64 values that the code computes with are exact rationals num/den in    *)
(* lowest terms, so that 80 as f64 / 100.0 and the literal 0.80 agree.      *)

RECURSIVE gcd(_, _)
gcd(a, b) == IF b = 0 THEN a ELSE gcd(b, a % b)

Frac(n, d) == [num |-> n \div gcd(n, d), den |-> d \div gcd(n, d)]

----------------------------------------------------------------------------
(* Characters.  A character is its Unicode code point and a text is the    *)
(* sequence of its characters.  The case mappings and the properties Cased *)
(* and Case_Ignorable are those of the standard library (core::unicode,    *)
(* Unicode 17.0); the Grapheme_Cluster_Break values are those of           *)
(* unicode-segmentation's tables (Unicode 16.0).                           *)

(* The printable ASCII characters, U+0020 to U+007E in order: Ascii[n - 31] *)
(* is the character of code point n, written as a string (the grave accent *)
(* by its name).                                                           *)
Ascii ==
    << " ", "!", "\"", "#", "$", "%", "&", "'", "(", ")", "*", "+", ",", "-", ".", "/",
       "0", "1", "2", "3", "4", "5", "6", "7", "8", "9", ":", ";", "<", "=", ">", "?",
       "@", "A", "B", "C", "D", "E", "F", "G", "H", "I", "J", "K", "L", "M", "N", "O",
       "P", "Q", "R", "S", "T", "U", "V", "W", "X", "Y", "Z", "[", "\\", "]", "^", "_",
       "U+0060", "a", "b", "c", "d", "e", "f", "g", "h", "i", "j", "k", "l", "m", "n", "o",
       "p", "q", "r", "s", "t", "u", "v", "w", "x", "y", "z", "{", "|", "}", "~" >>

(* The code point of a printable ASCII character. *)
code_of(c) == 31 + CHOOSE n \in 1..Len(Ascii) : Ascii[n] = c

(* The text of a sequence of printable ASCII characters. *)
str(s) == [i \in 1..Len(s) |-> code_of(s[i])]

RECURSIVE concat(_)
concat(ws) == IF ws = <<>> THEN <<>> ELSE Head(ws) \o concat(Tail(ws))

(* A case conversion is given by runs and by characters that convert to    *)
(* more than one: a run <<first, last, step, delta>> converts each of      *)
(* first, first + step, .., last to the character delta further; `changed` *)
(* is the set of the characters the conversion changes.                    *)
with_changed(t) ==
    [runs |-> t.runs, multi |-> t.multi,
     changed |-> UNION {{r[1] + k * r[3] : k \in 0..((r[2] - r[1]) \div r[3])} : r \in t.runs}
                 \cup {m[1] : m \in t.multi}]

(* The lowercase mapping of char::to_lowercase. *)
Lowercase ==
    with_changed(
      [runs |-> {
          <<65, 90, 1, 32>>, <<192, 214, 1, 32>>, <<216, 222, 1, 32>>,
          <<256, 302, 2, 1>>, <<306, 310, 2, 1>>, <<313, 327, 2, 1>>,
          <<330, 374, 2, 1>>, <<376, 376, 1, -121>>, <<377, 381, 2, 1>>,
          <<385, 385, 1, 210>>, <<386, 388, 2, 1>>, <<390, 390, 1, 206>>,
          <<391, 391, 1, 1>>, <<393, 394, 1, 205>>, <<395, 395, 1, 1>>,
          <<398, 398, 1, 79>>, <<399, 399, 1, 202>>, <<400, 400, 1, 203>>,
          <<401, 401, 1, 1>>, <<403, 403, 1, 205>>, <<404, 404, 1, 207>>,
          <<406, 406, 1, 211>>, <<407, 407, 1, 209>>, <<408, 408, 1, 1>>,
          <<412, 412, 1, 211>>, <<413, 413, 1, 213>>, <<415, 415, 1, 214>>,
          <<416, 420, 2, 1>>, <<422, 422, 1, 218>>, <<423, 423, 1, 1>>,
          <<425, 425, 1, 218>>, <<428, 428, 1, 1>>, <<430, 430, 1, 218>>,
          <<431, 431, 1, 1>>, <<433, 434, 1, 217>>, <<435, 437, 2, 1>>,
          <<439, 439, 1, 219>>, <<440, 440, 1, 1>>, <<444, 444, 1, 1>>,
          <<452, 452, 1, 2>>, <<453, 453, 1, 1>>, <<455, 455, 1, 2>>,
          <<456, 456, 1, 1>>, <<458, 458, 1, 2>>, <<459, 475, 2, 1>>,
          <<478, 494, 2, 1>>, <<497, 497, 1, 2>>, <<498, 500, 2, 1>>,
          <<502, 502, 1, -97>>, <<503, 503, 1, -56>>, <<504, 542, 2, 1>>,
          <<544, 544, 1, -130>>, <<546, 562, 2, 1>>,
          <<570, 570, 1, 10795>>, <<571, 571, 1, 1>>,
          <<573, 573, 1, -163>>, <<574, 574, 1, 10792>>,
          <<577, 577, 1, 1>>, <<579, 579, 1, -195>>, <<580, 580, 1, 69>>,
          <<581, 581, 1, 71>>, <<582, 590, 2, 1>>, <<880, 882, 2, 1>>,
          <<886, 886, 1, 1>>, <<895, 895, 1, 116>>, <<902, 902, 1, 38>>,
          <<904, 906, 1, 37>>, <<908, 908, 1, 64>>, <<910, 911, 1, 63>>,
          <<913, 929, 1, 32>>, <<931, 939, 1, 32>>, <<975, 975, 1, 8>>,
          <<984, 1006, 2, 1>>, <<1012, 1012, 1, -60>>,
          <<1015, 1015, 1, 1>>, <<1017, 1017, 1, -7>>,
          <<1018, 1018, 1, 1>>, <<1021, 1023, 1, -130>>,
          <<1024, 1039, 1, 80>>, <<1040, 1071, 1, 32>>,
          <<1120, 1152, 2, 1>>, <<1162, 1214, 2, 1>>,
          <<1216, 1216, 1, 15>>, <<1217, 1229, 2, 1>>,
          <<1232, 1326, 2, 1>>, <<1329, 1366, 1, 48>>,
          <<4256, 4293, 1, 7264>>, <<4295, 4295, 1, 7264>>,
          <<4301, 4301, 1, 7264>>, <<5024, 5103, 1, 38864>>,
          <<5104, 5109, 1, 8>>, <<7305, 7305, 1, 1>>,
          <<7312, 7354, 1, -3008>>, <<7357, 7359, 1, -3008>>,
          <<7680, 7828, 2, 1>>, <<7838, 7838, 1, -7615>>,
          <<7840, 7934, 2, 1>>, <<7944, 7951, 1, -8>>,
          <<7960, 7965, 1, -8>>, <<7976, 7983, 1, -8>>,
          <<7992, 7999, 1, -8>>, <<8008, 8013, 1, -8>>,
          <<8025, 8031, 2, -8>>, <<8040, 8047, 1, -8>>,
          <<8072, 8079, 1, -8>>, <<8088, 8095, 1, -8>>,
          <<8104, 8111, 1, -8>>, <<8120, 8121, 1, -8>>,
          <<8122, 8123, 1, -74>>, <<8124, 8124, 1, -9>>,
          <<8136, 8139, 1, -86>>, <<8140, 8140, 1, -9>>,
          <<8152, 8153, 1, -8>>, <<8154, 8155, 1, -100>>,
          <<8168, 8169, 1, -8>>, <<8170, 8171, 1, -112>>,
          <<8172, 8172, 1, -7>>, <<8184, 8185, 1, -128>>,
          <<8186, 8187, 1, -126>>, <<8188, 8188, 1, -9>>,
          <<8486, 8486, 1, -7517>>, <<8490, 8490, 1, -8383>>,
          <<8491, 8491, 1, -8262>>, <<8498, 8498, 1, 28>>,
          <<8544, 8559, 1, 16>>, <<8579, 8579, 1, 1>>,
          <<9398, 9423, 1, 26>>, <<11264, 11311, 1, 48>>,
          <<11360, 11360, 1, 1>>, <<11362, 11362, 1, -10743>>,
          <<11363, 11363, 1, -3814>>, <<11364, 11364, 1, -10727>>,
          <<11367, 11371, 2, 1>>, <<11373, 11373, 1, -10780>>,
          <<11374, 11374, 1, -10749>>, <<11375, 11375, 1, -10783>>,
          <<11376, 11376, 1, -10782>>, <<11378, 11378, 1, 1>>,
          <<11381, 11381, 1, 1>>, <<11390, 11391, 1, -10815>>,
          <<11392, 11490, 2, 1>>, <<11499, 11501, 2, 1>>,
          <<11506, 11506, 1, 1>>, <<42560, 42604, 2, 1>>,
          <<42624, 42650, 2, 1>>, <<42786, 42798, 2, 1>>,
          <<42802, 42862, 2, 1>>, <<42873, 42875, 2, 1>>,
          <<42877, 42877, 1, -35332>>, <<42878, 42886, 2, 1>>,
          <<42891, 42891, 1, 1>>, <<42893, 42893, 1, -42280>>,
          <<42896, 42898, 2, 1>>, <<42902, 42920, 2, 1>>,
          <<42922, 42922, 1, -42308>>, <<42923, 42923, 1, -42319>>,
          <<42924, 42924, 1, -42315>>, <<42925, 42925, 1, -42305>>,
          <<42926, 42926, 1, -42308>>, <<42928, 42928, 1, -42258>>,
          <<42929, 42929, 1, -42282>>, <<42930, 42930, 1, -42261>>,
          <<42931, 42931, 1, 928>>, <<42932, 42946, 2, 1>>,
          <<42948, 42948, 1, -48>>, <<42949, 42949, 1, -42307>>,
          <<42950, 42950, 1, -35384>>, <<42951, 42953, 2, 1>>,
          <<42955, 42955, 1, -42343>>, <<42956, 42970, 2, 1>>,
          <<42972, 42972, 1, -42561>>, <<42997, 42997, 1, 1>>,
          <<65313, 65338, 1, 32>>, <<66560, 66599, 1, 40>>,
          <<66736, 66771, 1, 40>>, <<66928, 66938, 1, 39>>,
          <<66940, 66954, 1, 39>>, <<66956, 66962, 1, 39>>,
          <<66964, 66965, 1, 39>>, <<68736, 68786, 1, 64>>,
          <<68944, 68965, 1, 32>>, <<71840, 71871, 1, 32>>,
          <<93760, 93791, 1, 32>>, <<93856, 93880, 1, 27>>,
          <<125184, 125217, 1, 34>> },
       multi |-> {
          <<304, <<105, 775>>>> }])

(* The uppercase mapping of char::to_uppercase. *)
Uppercase ==
    with_changed(
      [runs |-> {
          <<97, 122, 1, -32>>, <<181, 181, 1, 743>>, <<224, 246, 1, -32>>,
          <<248, 254, 1, -32>>, <<255, 255, 1, 121>>, <<257, 303, 2, -1>>,
          <<305, 305, 1, -232>>, <<307, 311, 2, -1>>, <<314, 328, 2, -1>>,
          <<331, 375, 2, -1>>, <<378, 382, 2, -1>>, <<383, 383, 1, -300>>,
          <<384, 384, 1, 195>>, <<387, 389, 2, -1>>, <<392, 392, 1, -1>>,
          <<396, 396, 1, -1>>, <<402, 402, 1, -1>>, <<405, 405, 1, 97>>,
          <<409, 409, 1, -1>>, <<410, 410, 1, 163>>,
          <<411, 411, 1, 42561>>, <<414, 414, 1, 130>>,
          <<417, 421, 2, -1>>, <<424, 424, 1, -1>>, <<429, 429, 1, -1>>,
          <<432, 432, 1, -1>>, <<436, 438, 2, -1>>, <<441, 441, 1, -1>>,
          <<445, 445, 1, -1>>, <<447, 447, 1, 56>>, <<453, 453, 1, -1>>,
          <<454, 454, 1, -2>>, <<456, 456, 1, -1>>, <<457, 457, 1, -2>>,
          <<459, 459, 1, -1>>, <<460, 460, 1, -2>>, <<462, 476, 2, -1>>,
          <<477, 477, 1, -79>>, <<479, 495, 2, -1>>, <<498, 498, 1, -1>>,
          <<499, 499, 1, -2>>, <<501, 501, 1, -1>>, <<505, 543, 2, -1>>,
          <<547, 563, 2, -1>>, <<572, 572, 1, -1>>, <<575, 576, 1, 10815>>,
          <<578, 578, 1, -1>>, <<583, 591, 2, -1>>, <<592, 592, 1, 10783>>,
          <<593, 593, 1, 10780>>, <<594, 594, 1, 10782>>,
          <<595, 595, 1, -210>>, <<596, 596, 1, -206>>,
          <<598, 599, 1, -205>>, <<601, 601, 1, -202>>,
          <<603, 603, 1, -203>>, <<604, 604, 1, 42319>>,
          <<608, 608, 1, -205>>, <<609, 609, 1, 42315>>,
          <<611, 611, 1, -207>>, <<612, 612, 1, 42343>>,
          <<613, 613, 1, 42280>>, <<614, 614, 1, 42308>>,
          <<616, 616, 1, -209>>, <<617, 617, 1, -211>>,
          <<618, 618, 1, 42308>>, <<619, 619, 1, 10743>>,
          <<620, 620, 1, 42305>>, <<623, 623, 1, -211>>,
          <<625, 625, 1, 10749>>, <<626, 626, 1, -213>>,
          <<629, 629, 1, -214>>, <<637, 637, 1, 10727>>,
          <<640, 640, 1, -218>>, <<642, 642, 1, 42307>>,
          <<643, 643, 1, -218>>, <<647, 647, 1, 42282>>,
          <<648, 648, 1, -218>>, <<649, 649, 1, -69>>,
          <<650, 651, 1, -217>>, <<652, 652, 1, -71>>,
          <<658, 658, 1, -219>>, <<669, 669, 1, 42261>>,
          <<670, 670, 1, 42258>>, <<837, 837, 1, 84>>, <<881, 883, 2, -1>>,
          <<887, 887, 1, -1>>, <<891, 893, 1, 130>>, <<940, 940, 1, -38>>,
          <<941, 943, 1, -37>>, <<945, 961, 1, -32>>, <<962, 962, 1, -31>>,
          <<963, 971, 1, -32>>, <<972, 972, 1, -64>>, <<973, 974, 1, -63>>,
          <<976, 976, 1, -62>>, <<977, 977, 1, -57>>, <<981, 981, 1, -47>>,
          <<982, 982, 1, -54>>, <<983, 983, 1, -8>>, <<985, 1007, 2, -1>>,
          <<1008, 1008, 1, -86>>, <<1009, 1009, 1, -80>>,
          <<1010, 1010, 1, 7>>, <<1011, 1011, 1, -116>>,
          <<1013, 1013, 1, -96>>, <<1016, 1016, 1, -1>>,
          <<1019, 1019, 1, -1>>, <<1072, 1103, 1, -32>>,
          <<1104, 1119, 1, -80>>, <<1121, 1153, 2, -1>>,
          <<1163, 1215, 2, -1>>, <<1218, 1230, 2, -1>>,
          <<1231, 1231, 1, -15>>, <<1233, 1327, 2, -1>>,
          <<1377, 1414, 1, -48>>, <<4304, 4346, 1, 3008>>,
          <<4349, 4351, 1, 3008>>, <<5112, 5117, 1, -8>>,
          <<7296, 7296, 1, -6254>>, <<7297, 7297, 1, -6253>>,
          <<7298, 7298, 1, -6244>>, <<7299, 7300, 1, -6242>>,
          <<7301, 7301, 1, -6243>>, <<7302, 7302, 1, -6236>>,
          <<7303, 7303, 1, -6181>>, <<7304, 7304, 1, 35266>>,
          <<7306, 7306, 1, -1>>, <<7545, 7545, 1, 35332>>,
          <<7549, 7549, 1, 3814>>, <<7566, 7566, 1, 35384>>,
          <<7681, 7829, 2, -1>>, <<7835, 7835, 1, -59>>,
          <<7841, 7935, 2, -1>>, <<7936, 7943, 1, 8>>,
          <<7952, 7957, 1, 8>>, <<7968, 7975, 1, 8>>, <<7984, 7991, 1, 8>>,
          <<8000, 8005, 1, 8>>, <<8017, 8023, 2, 8>>, <<8032, 8039, 1, 8>>,
          <<8048, 8049, 1, 74>>, <<8050, 8053, 1, 86>>,
          <<8054, 8055, 1, 100>>, <<8056, 8057, 1, 128>>,
          <<8058, 8059, 1, 112>>, <<8060, 8061, 1, 126>>,
          <<8112, 8113, 1, 8>>, <<8126, 8126, 1, -7205>>,
          <<8144, 8145, 1, 8>>, <<8160, 8161, 1, 8>>, <<8165, 8165, 1, 7>>,
          <<8526, 8526, 1, -28>>, <<8560, 8575, 1, -16>>,
          <<8580, 8580, 1, -1>>, <<9424, 9449, 1, -26>>,
          <<11312, 11359, 1, -48>>, <<11361, 11361, 1, -1>>,
          <<11365, 11365, 1, -10795>>, <<11366, 11366, 1, -10792>>,
          <<11368, 11372, 2, -1>>, <<11379, 11379, 1, -1>>,
          <<11382, 11382, 1, -1>>, <<11393, 11491, 2, -1>>,
          <<11500, 11502, 2, -1>>, <<11507, 11507, 1, -1>>,
          <<11520, 11557, 1, -7264>>, <<11559, 11559, 1, -7264>>,
          <<11565, 11565, 1, -7264>>, <<42561, 42605, 2, -1>>,
          <<42625, 42651, 2, -1>>, <<42787, 42799, 2, -1>>,
          <<42803, 42863, 2, -1>>, <<42874, 42876, 2, -1>>,
          <<42879, 42887, 2, -1>>, <<42892, 42892, 1, -1>>,
          <<42897, 42899, 2, -1>>, <<42900, 42900, 1, 48>>,
          <<42903, 42921, 2, -1>>, <<42933, 42947, 2, -1>>,
          <<42952, 42954, 2, -1>>, <<42957, 42971, 2, -1>>,
          <<42998, 42998, 1, -1>>, <<43859, 43859, 1, -928>>,
          <<43888, 43967, 1, -38864>>, <<65345, 65370, 1, -32>>,
          <<66600, 66639, 1, -40>>, <<66776, 66811, 1, -40>>,
          <<66967, 66977, 1, -39>>, <<66979, 66993, 1, -39>>,
          <<66995, 67001, 1, -39>>, <<67003, 67004, 1, -39>>,
          <<68800, 68850, 1, -64>>, <<68976, 68997, 1, -32>>,
          <<71872, 71903, 1, -32>>, <<93792, 93823, 1, -32>>,
          <<93883, 93907, 1, -27>>, <<125218, 125251, 1, -34>> },
       multi |-> {
          <<223, <<83, 83>>>>, <<329, <<700, 78>>>>, <<496, <<74, 780>>>>,
          <<912, <<921, 776, 769>>>>, <<944, <<933, 776, 769>>>>,
          <<1415, <<1333, 1362>>>>, <<7830, <<72, 817>>>>,
          <<7831, <<84, 776>>>>, <<7832, <<87, 778>>>>,
          <<7833, <<89, 778>>>>, <<7834, <<65, 702>>>>,
          <<8016, <<933, 787>>>>, <<8018, <<933, 787, 768>>>>,
          <<8020, <<933, 787, 769>>>>, <<8022, <<933, 787, 834>>>>,
          <<8064, <<7944, 921>>>>, <<8065, <<7945, 921>>>>,
          <<8066, <<7946, 921>>>>, <<8067, <<7947, 921>>>>,
          <<8068, <<7948, 921>>>>, <<8069, <<7949, 921>>>>,
          <<8070, <<7950, 921>>>>, <<8071, <<7951, 921>>>>,
          <<8072, <<7944, 921>>>>, <<8073, <<7945, 921>>>>,
          <<8074, <<7946, 921>>>>, <<8075, <<7947, 921>>>>,
          <<8076, <<7948, 921>>>>, <<8077, <<7949, 921>>>>,
          <<8078, <<7950, 921>>>>, <<8079, <<7951, 921>>>>,
          <<8080, <<7976, 921>>>>, <<8081, <<7977, 921>>>>,
          <<8082, <<7978, 921>>>>, <<8083, <<7979, 921>>>>,
          <<8084, <<7980, 921>>>>, <<8085, <<7981, 921>>>>,
          <<8086, <<7982, 921>>>>, <<8087, <<7983, 921>>>>,
          <<8088, <<7976, 921>>>>, <<8089, <<7977, 921>>>>,
          <<8090, <<7978, 921>>>>, <<8091, <<7979, 921>>>>,
          <<8092, <<7980, 921>>>>, <<8093, <<7981, 921>>>>,
          <<8094, <<7982, 921>>>>, <<8095, <<7983, 921>>>>,
          <<8096, <<8040, 921>>>>, <<8097, <<8041, 921>>>>,
          <<8098, <<8042, 921>>>>, <<8099, <<8043, 921>>>>,
          <<8100, <<8044, 921>>>>, <<8101, <<8045, 921>>>>,
          <<8102, <<8046, 921>>>>, <<8103, <<8047, 921>>>>,
          <<8104, <<8040, 921>>>>, <<8105, <<8041, 921>>>>,
          <<8106, <<8042, 921>>>>, <<8107, <<8043, 921>>>>,
          <<8108, <<8044, 921>>>>, <<8109, <<8045, 921>>>>,
          <<8110, <<8046, 921>>>>, <<8111, <<8047, 921>>>>,
          <<8114, <<8122, 921>>>>, <<8115, <<913, 921>>>>,
          <<8116, <<902, 921>>>>, <<8118, <<913, 834>>>>,
          <<8119, <<913, 834, 921>>>>, <<8124, <<913, 921>>>>,
          <<8130, <<8138, 921>>>>, <<8131, <<919, 921>>>>,
          <<8132, <<905, 921>>>>, <<8134, <<919, 834>>>>,
          <<8135, <<919, 834, 921>>>>, <<8140, <<919, 921>>>>,
          <<8146, <<921, 776, 768>>>>, <<8147, <<921, 776, 769>>>>,
          <<8150, <<921, 834>>>>, <<8151, <<921, 776, 834>>>>,
          <<8162, <<933, 776, 768>>>>, <<8163, <<933, 776, 769>>>>,
          <<8164, <<929, 787>>>>, <<8166, <<933, 834>>>>,
          <<8167, <<933, 776, 834>>>>, <<8178, <<8186, 921>>>>,
          <<8179, <<937, 921>>>>, <<8180, <<911, 921>>>>,
          <<8182, <<937, 834>>>>, <<8183, <<937, 834, 921>>>>,
          <<8188, <<937, 921>>>>, <<64256, <<70, 70>>>>,
          <<64257, <<70, 73>>>>, <<64258, <<70, 76>>>>,
          <<64259, <<70, 70, 73>>>>, <<64260, <<70, 70, 76>>>>,
          <<64261, <<83, 84>>>>, <<64262, <<83, 84>>>>,
          <<64275, <<1348, 1350>>>>, <<64276, <<1348, 1333>>>>,
          <<64277, <<1348, 1339>>>>, <<64278, <<1358, 1350>>>>,
          <<64279, <<1348, 1341>>>> }])

(* The characters a conversion yields for c: one, or more for a character  *)
(* of `multi`; a character it does not change converts to itself.          *)
conversion(c, t) ==
    IF c \notin t.changed THEN <<c>>
    ELSE IF \E m \in t.multi : m[1] = c THEN (CHOOSE m \in t.multi : m[1] = c)[2]
    ELSE <<c + (CHOOSE r \in t.runs :
                    r[1] <= c /\ c <= r[2] /\ (c - r[1]) % r[3] = 0)[4]>>

(* char::to_lowercase / char::to_uppercase: an ASCII character by its     *)
(* ASCII conversion, any other by the table.                               *)
to_lowercase(c) ==
    IF c < 128 THEN <<IF c \in 65..90 THEN c + 32 ELSE c>> ELSE conversion(c, Lowercase)

to_uppercase(c) ==
    IF c < 128 THEN <<IF c \in 97..122 THEN c - 32 ELSE c>> ELSE conversion(c, Uppercase)

(* The property Cased. *)
Cased ==
    UNION {
      65..90, 97..122, 170..170, 181..181, 186..186, 192..214, 216..246,
      248..442, 444..447, 452..659, 662..696, 704..705, 736..740, 837..837,
      880..883, 886..887, 890..893, 895..895, 902..902, 904..906, 908..908,
      910..929, 931..1013, 1015..1153, 1162..1327, 1329..1366, 1376..1416,
      4256..4293, 4295..4295, 4301..4301, 4304..4346, 4348..4351,
      5024..5109, 5112..5117, 7296..7306, 7312..7354, 7357..7359,
      7424..7615, 7680..7957, 7960..7965, 7968..8005, 8008..8013,
      8016..8023, 8025..8025, 8027..8027, 8029..8029, 8031..8061,
      8064..8116, 8118..8124, 8126..8126, 8130..8132, 8134..8140,
      8144..8147, 8150..8155, 8160..8172, 8178..8180, 8182..8188,
      8305..8305, 8319..8319, 8336..8348, 8450..8450, 8455..8455,
      8458..8467, 8469..8469, 8473..8477, 8484..8484, 8486..8486,
      8488..8488, 8490..8493, 8495..8500, 8505..8505, 8508..8511,
      8517..8521, 8526..8526, 8544..8575, 8579..8580, 9398..9449,
      11264..11492, 11499..11502, 11506..11507, 11520..11557, 11559..11559,
      11565..11565, 42560..42605, 42624..42653, 42786..42887, 42891..42894,
      42896..42972, 42993..42998, 43000..43002, 43824..43866, 43868..43881,
      43888..43967, 64256..64262, 64275..64279, 65313..65338, 65345..65370,
      66560..66639, 66736..66771, 66776..66811, 66928..66938, 66940..66954,
      66956..66962, 66964..66965, 66967..66977, 66979..66993, 66995..67001,
      67003..67004, 67456..67456, 67459..67461, 67463..67504, 67506..67514,
      68736..68786, 68800..68850, 68944..68965, 68976..68997, 71840..71903,
      93760..93823, 93856..93880, 93883..93907, 119808..119892,
      119894..119964, 119966..119967, 119970..119970, 119973..119974,
      119977..119980, 119982..119993, 119995..119995, 119997..120003,
      120005..120069, 120071..120074, 120077..120084, 120086..120092,
      120094..120121, 120123..120126, 120128..120132, 120134..120134,
      120138..120144, 120146..120485, 120488..120512, 120514..120538,
      120540..120570, 120572..120596, 120598..120628, 120630..120654,
      120656..120686, 120688..120712, 120714..120744, 120746..120770,
      120772..120779, 122624..122633, 122635..122654, 122661..122666,
      122928..122989, 125184..125251, 127280..127305, 127312..127337,
      127344..127369 }

(* The property Case_Ignorable. *)
Case_Ignorable ==
    UNION {
      39..39, 46..46, 58..58, 94..94, 96..96, 168..168, 173..173, 175..175,
      180..180, 183..184, 688..879, 884..885, 890..890, 900..901, 903..903,
      1155..1161, 1369..1369, 1375..1375, 1425..1469, 1471..1471,
      1473..1474, 1476..1477, 1479..1479, 1524..1524, 1536..1541,
      1552..1562, 1564..1564, 1600..1600, 1611..1631, 1648..1648,
      1750..1757, 1759..1768, 1770..1773, 1807..1807, 1809..1809,
      1840..1866, 1958..1968, 2027..2037, 2042..2042, 2045..2045,
      2070..2093, 2137..2139, 2184..2184, 2192..2193, 2199..2207,
      2249..2306, 2362..2362, 2364..2364, 2369..2376, 2381..2381,
      2385..2391, 2402..2403, 2417..2417, 2433..2433, 2492..2492,
      2497..2500, 2509..2509, 2530..2531, 2558..2558, 2561..2562,
      2620..2620, 2625..2626, 2631..2632, 2635..2637, 2641..2641,
      2672..2673, 2677..2677, 2689..2690, 2748..2748, 2753..2757,
      2759..2760, 2765..2765, 2786..2787, 2810..2815, 2817..2817,
      2876..2876, 2879..2879, 2881..2884, 2893..2893, 2901..2902,
      2914..2915, 2946..2946, 3008..3008, 3021..3021, 3072..3072,
      3076..3076, 3132..3132, 3134..3136, 3142..3144, 3146..3149,
      3157..3158, 3170..3171, 3201..3201, 3260..3260, 3263..3263,
      3270..3270, 3276..3277, 3298..3299, 3328..3329, 3387..3388,
      3393..3396, 3405..3405, 3426..3427, 3457..3457, 3530..3530,
      3538..3540, 3542..3542, 3633..3633, 3636..3642, 3654..3662,
      3761..3761, 3764..3772, 3782..3782, 3784..3790, 3864..3865,
      3893..3893, 3895..3895, 3897..3897, 3953..3966, 3968..3972,
      3974..3975, 3981..3991, 3993..4028, 4038..4038, 4141..4144,
      4146..4151, 4153..4154, 4157..4158, 4184..4185, 4190..4192,
      4209..4212, 4226..4226, 4229..4230, 4237..4237, 4253..4253,
      4348..4348, 4957..4959, 5906..5908, 5938..5939, 5970..5971,
      6002..6003, 6068..6069, 6071..6077, 6086..6086, 6089..6099,
      6103..6103, 6109..6109, 6155..6159, 6211..6211, 6277..6278,
      6313..6313, 6432..6434, 6439..6440, 6450..6450, 6457..6459,
      6679..6680, 6683..6683, 6742..6742, 6744..6750, 6752..6752,
      6754..6754, 6757..6764, 6771..6780, 6783..6783, 6823..6823,
      6832..6877, 6880..6891, 6912..6915, 6964..6964, 6966..6970,
      6972..6972, 6978..6978, 7019..7027, 7040..7041, 7074..7077,
      7080..7081, 7083..7085, 7142..7142, 7144..7145, 7149..7149,
      7151..7153, 7212..7219, 7222..7223, 7288..7293, 7376..7378,
      7380..7392, 7394..7400, 7405..7405, 7412..7412, 7416..7417,
      7468..7530, 7544..7544, 7579..7679, 8125..8125, 8127..8129,
      8141..8143, 8157..8159, 8173..8175, 8189..8190, 8203..8207,
      8216..8217, 8228..8228, 8231..8231, 8234..8238, 8288..8292,
      8294..8303, 8305..8305, 8319..8319, 8336..8348, 8400..8432,
      11388..11389, 11503..11505, 11631..11631, 11647..11647, 11744..11775,
      11823..11823, 12293..12293, 12330..12333, 12337..12341, 12347..12347,
      12441..12446, 12540..12542, 40981..40981, 42232..42237, 42508..42508,
      42607..42610, 42612..42621, 42623..42623, 42652..42655, 42736..42737,
      42752..42785, 42864..42864, 42888..42890, 42993..42996, 43000..43001,
      43010..43010, 43014..43014, 43019..43019, 43045..43046, 43052..43052,
      43204..43205, 43232..43249, 43263..43263, 43302..43309, 43335..43345,
      43392..43394, 43443..43443, 43446..43449, 43452..43453, 43471..43471,
      43493..43494, 43561..43566, 43569..43570, 43573..43574, 43587..43587,
      43596..43596, 43632..43632, 43644..43644, 43696..43696, 43698..43700,
      43703..43704, 43710..43711, 43713..43713, 43741..43741, 43756..43757,
      43763..43764, 43766..43766, 43867..43871, 43881..43883, 44005..44005,
      44008..44008, 44013..44013, 64286..64286, 64434..64450, 65024..65039,
      65043..65043, 65056..65071, 65106..65106, 65109..65109, 65279..65279,
      65287..65287, 65294..65294, 65306..65306, 65342..65342, 65344..65344,
      65392..65392, 65438..65439, 65507..65507, 65529..65531, 66045..66045,
      66272..66272, 66422..66426, 67456..67461, 67463..67504, 67506..67514,
      68097..68099, 68101..68102, 68108..68111, 68152..68154, 68159..68159,
      68325..68326, 68900..68903, 68942..68942, 68969..68973, 68975..68975,
      69291..69292, 69317..69317, 69370..69375, 69446..69456, 69506..69509,
      69633..69633, 69688..69702, 69744..69744, 69747..69748, 69759..69761,
      69811..69814, 69817..69818, 69821..69821, 69826..69826, 69837..69837,
      69888..69890, 69927..69931, 69933..69940, 70003..70003, 70016..70017,
      70070..70078, 70089..70092, 70095..70095, 70191..70193, 70196..70196,
      70198..70199, 70206..70206, 70209..70209, 70367..70367, 70371..70378,
      70400..70401, 70459..70460, 70464..70464, 70502..70508, 70512..70516,
      70587..70592, 70606..70606, 70608..70608, 70610..70610, 70625..70626,
      70712..70719, 70722..70724, 70726..70726, 70750..70750, 70835..70840,
      70842..70842, 70847..70848, 70850..70851, 71090..71093, 71100..71101,
      71103..71104, 71132..71133, 71219..71226, 71229..71229, 71231..71232,
      71339..71339, 71341..71341, 71344..71349, 71351..71351, 71453..71453,
      71455..71455, 71458..71461, 71463..71467, 71727..71735, 71737..71738,
      71995..71996, 71998..71998, 72003..72003, 72148..72151, 72154..72155,
      72160..72160, 72193..72202, 72243..72248, 72251..72254, 72263..72263,
      72273..72278, 72281..72283, 72330..72342, 72344..72345, 72544..72544,
      72546..72548, 72550..72550, 72752..72758, 72760..72765, 72767..72767,
      72850..72871, 72874..72880, 72882..72883, 72885..72886, 73009..73014,
      73018..73018, 73020..73021, 73023..73029, 73031..73031, 73104..73105,
      73109..73109, 73111..73111, 73177..73177, 73459..73460, 73472..73473,
      73526..73530, 73536..73536, 73538..73538, 73562..73562, 78896..78912,
      78919..78933, 90398..90409, 90413..90415, 92912..92916, 92976..92982,
      92992..92995, 93504..93506, 93547..93548, 94031..94031, 94095..94111,
      94176..94177, 94179..94180, 94194..94195, 110576..110579,
      110581..110587, 110589..110590, 113821..113822, 113824..113827,
      118528..118573, 118576..118598, 119143..119145, 119155..119170,
      119173..119179, 119210..119213, 119362..119364, 121344..121398,
      121403..121452, 121461..121461, 121476..121476, 121499..121503,
      121505..121519, 122880..122886, 122888..122904, 122907..122913,
      122915..122916, 122918..122922, 122928..122989, 123023..123023,
      123184..123197, 123566..123566, 123628..123631, 124139..124143,
      124398..124399, 124643..124643, 124646..124646, 124654..124655,
      124661..124661, 124671..124671, 125136..125142, 125252..125259,
      127995..127999, 917505..917505, 917536..917631, 917760..917999 }

(* case_ignorable_then_cased over the characters from position i on in     *)
(* the direction of step: the first that is not case-ignorable is cased.   *)
RECURSIVE case_ignorable_then_cased(_, _, _)
case_ignorable_then_cased(s, i, step) ==
    IF i < 1 \/ i > Len(s) THEN FALSE
    ELSE IF s[i] \in Case_Ignorable THEN case_ignorable_then_cased(s, i + step, step)
    ELSE s[i] \in Cased

(* map_uppercase_sigma: U+03A3 at position i becomes the final sigma       *)
(* U+03C2 when a cased letter stands before it and none after it, and      *)
(* U+03C3 otherwise.                                                       *)
map_uppercase_sigma(s, i) ==
    IF case_ignorable_then_cased(s, i - 1, -1) /\ ~case_ignorable_then_cased(s, i + 1, 1)
    THEN 962 ELSE 963

(* str::to_lowercase: every character's lowercase, in order, the capital   *)
(* sigma by its place in the word.                                         *)
str_to_lowercase(s) ==
    concat([i \in 1..Len(s) |->
               IF s[i] = 931 THEN <<map_uppercase_sigma(s, i)>> ELSE to_lowercase(s[i])])

(* str::to_uppercase: every character's uppercase, in order. *)
str_to_uppercase(s) == concat([i \in 1..Len(s) |-> to_uppercase(s[i])])

(* str::split(","): the pieces between the separators (the comma is        *)
(* U+002C), empty pieces kept; a text without separator is one piece.      *)
RECURSIVE split(_, _)
split(s, pat) ==
    IF \A i \in 1..Len(s) : s[i] # pat
    THEN <<s>>
    ELSE LET i == CHOOSE k \in 1..Len(s) :
                      s[k] = pat /\ \A j \in 1..(k - 1) : s[j] # pat
         IN  <<SubSeq(s, 1, i - 1)>> \o split(SubSeq(s, i + 1, Len(s)), pat)

----------------------------------------------------------------------------
(* unicode_segmentation: s.graphemes(true), the extended grapheme clusters *)
(* of a text (UAX #29).                                                    *)

(* The characters of each Grapheme_Cluster_Break value other than Any, and *)
(* those of the property Extended_Pictographic and of the value Consonant  *)
(* of Indic_Conjunct_Break, which have the value Any and which the tables  *)
(* keep as categories of their own.                                        *)
GCB ==
    [ CR |->
          {13},
      LF |->
          {10},
      Control |->
          UNION {
          0..9, 11..12, 14..31, 127..159, 173..173, 1564..1564, 6158..6158,
          8203..8203, 8206..8207, 8232..8238, 8288..8303, 65279..65279,
          65520..65531, 78896..78911, 113824..113827, 119155..119162,
          917504..917535, 917632..917759, 918000..921599 },
      Extend |->
          UNION {
          768..879, 1155..1161, 1425..1469, 1471..1471, 1473..1474,
          1476..1477, 1479..1479, 1552..1562, 1611..1631, 1648..1648,
          1750..1756, 1759..1764, 1767..1768, 1770..1773, 1809..1809,
          1840..1866, 1958..1968, 2027..2035, 2045..2045, 2070..2073,
          2075..2083, 2085..2087, 2089..2093, 2137..2139, 2199..2207,
          2250..2273, 2275..2306, 2362..2362, 2364..2364, 2369..2376,
          2381..2381, 2385..2391, 2402..2403, 2433..2433, 2492..2492,
          2494..2494, 2497..2500, 2509..2509, 2519..2519, 2530..2531,
          2558..2558, 2561..2562, 2620..2620, 2625..2626, 2631..2632,
          2635..2637, 2641..2641, 2672..2673, 2677..2677, 2689..2690,
          2748..2748, 2753..2757, 2759..2760, 2765..2765, 2786..2787,
          2810..2815, 2817..2817, 2876..2876, 2878..2879, 2881..2884,
          2893..2893, 2901..2903, 2914..2915, 2946..2946, 3006..3006,
          3008..3008, 3021..3021, 3031..3031, 3072..3072, 3076..3076,
          3132..3132, 3134..3136, 3142..3144, 3146..3149, 3157..3158,
          3170..3171, 3201..3201, 3260..3260, 3263..3264, 3266..3266,
          3270..3272, 3274..3277, 3285..3286, 3298..3299, 3328..3329,
          3387..3388, 3390..3390, 3393..3396, 3405..3405, 3415..3415,
          3426..3427, 3457..3457, 3530..3530, 3535..3535, 3538..3540,
          3542..3542, 3551..3551, 3633..3633, 3636..3642, 3655..3662,
          3761..3761, 3764..3772, 3784..3790, 3864..3865, 3893..3893,
          3895..3895, 3897..3897, 3953..3966, 3968..3972, 3974..3975,
          3981..3991, 3993..4028, 4038..4038, 4141..4144, 4146..4151,
          4153..4154, 4157..4158, 4184..4185, 4190..4192, 4209..4212,
          4226..4226, 4229..4230, 4237..4237, 4253..4253, 4957..4959,
          5906..5909, 5938..5940, 5970..5971, 6002..6003, 6068..6069,
          6071..6077, 6086..6086, 6089..6099, 6109..6109, 6155..6157,
          6159..6159, 6277..6278, 6313..6313, 6432..6434, 6439..6440,
          6450..6450, 6457..6459, 6679..6680, 6683..6683, 6742..6742,
          6744..6750, 6752..6752, 6754..6754, 6757..6764, 6771..6780,
          6783..6783, 6832..6862, 6912..6915, 6964..6973, 6978..6980,
          7019..7027, 7040..7041, 7074..7077, 7080..7085, 7142..7142,
          7144..7145, 7149..7149, 7151..7155, 7212..7219, 7222..7223,
          7376..7378, 7380..7392, 7394..7400, 7405..7405, 7412..7412,
          7416..7417, 7616..7679, 8204..8204, 8400..8432, 11503..11505,
          11647..11647, 11744..11775, 12330..12335, 12441..12442,
          42607..42610, 42612..42621, 42654..42655, 42736..42737,
          43010..43010, 43014..43014, 43019..43019, 43045..43046,
          43052..43052, 43204..43205, 43232..43249, 43263..43263,
          43302..43309, 43335..43345, 43347..43347, 43392..43394,
          43443..43443, 43446..43449, 43452..43453, 43456..43456,
          43493..43493, 43561..43566, 43569..43570, 43573..43574,
          43587..43587, 43596..43596, 43644..43644, 43696..43696,
          43698..43700, 43703..43704, 43710..43711, 43713..43713,
          43756..43757, 43766..43766, 44005..44005, 44008..44008,
          44013..44013, 64286..64286, 65024..65039, 65056..65071,
          65438..65439, 66045..66045, 66272..66272, 66422..66426,
          68097..68099, 68101..68102, 68108..68111, 68152..68154,
          68159..68159, 68325..68326, 68900..68903, 68969..68973,
          69291..69292, 69372..69375, 69446..69456, 69506..69509,
          69633..69633, 69688..69702, 69744..69744, 69747..69748,
          69759..69761, 69811..69814, 69817..69818, 69826..69826,
          69888..69890, 69927..69931, 69933..69940, 70003..70003,
          70016..70017, 70070..70078, 70080..70080, 70089..70092,
          70095..70095, 70191..70193, 70196..70199, 70206..70206,
          70209..70209, 70367..70367, 70371..70378, 70400..70401,
          70459..70460, 70462..70462, 70464..70464, 70477..70477,
          70487..70487, 70502..70508, 70512..70516, 70584..70584,
          70587..70592, 70594..70594, 70597..70597, 70599..70601,
          70606..70608, 70610..70610, 70625..70626, 70712..70719,
          70722..70724, 70726..70726, 70750..70750, 70832..70832,
          70835..70840, 70842..70842, 70845..70845, 70847..70848,
          70850..70851, 71087..71087, 71090..71093, 71100..71101,
          71103..71104, 71132..71133, 71219..71226, 71229..71229,
          71231..71232, 71339..71339, 71341..71341, 71344..71351,
          71453..71453, 71455..71455, 71458..71461, 71463..71467,
          71727..71735, 71737..71738, 71984..71984, 71995..71998,
          72003..72003, 72148..72151, 72154..72155, 72160..72160,
          72193..72202, 72243..72248, 72251..72254, 72263..72263,
          72273..72278, 72281..72283, 72330..72342, 72344..72345,
          72752..72758, 72760..72765, 72767..72767, 72850..72871,
          72874..72880, 72882..72883, 72885..72886, 73009..73014,
          73018..73018, 73020..73021, 73023..73029, 73031..73031,
          73104..73105, 73109..73109, 73111..73111, 73459..73460,
          73472..73473, 73526..73530, 73536..73538, 73562..73562,
          78912..78912, 78919..78933, 90398..90409, 90413..90415,
          92912..92916, 92976..92982, 94031..94031, 94095..94098,
          94180..94180, 94192..94193, 113821..113822, 118528..118573,
          118576..118598, 119141..119145, 119149..119154, 119163..119170,
          119173..119179, 119210..119213, 119362..119364, 121344..121398,
          121403..121452, 121461..121461, 121476..121476, 121499..121503,
          121505..121519, 122880..122886, 122888..122904, 122907..122913,
          122915..122916, 122918..122922, 123023..123023, 123184..123190,
          123566..123566, 123628..123631, 124140..124143, 124398..124399,
          125136..125142, 125252..125258, 127995..127999, 917536..917631,
          917760..917999 },
      ZWJ |->
          {8205},
      Regional_Indicator |->
          127462..127487,
      Prepend |->
          UNION {
          1536..1541, 1757..1757, 1807..1807, 2192..2193, 2274..2274,
          3406..3406, 69821..69821, 69837..69837, 70082..70083,
          70609..70609, 71999..71999, 72001..72001, 72250..72250,
          72324..72329, 73030..73030, 73474..73474 },
      SpacingMark |->
          UNION {
          2307..2307, 2363..2363, 2366..2368, 2377..2380, 2382..2383,
          2434..2435, 2495..2496, 2503..2504, 2507..2508, 2563..2563,
          2622..2624, 2691..2691, 2750..2752, 2761..2761, 2763..2764,
          2818..2819, 2880..2880, 2887..2888, 2891..2892, 3007..3007,
          3009..3010, 3014..3016, 3018..3020, 3073..3075, 3137..3140,
          3202..3203, 3262..3262, 3265..3265, 3267..3268, 3315..3315,
          3330..3331, 3391..3392, 3398..3400, 3402..3404, 3458..3459,
          3536..3537, 3544..3550, 3570..3571, 3635..3635, 3763..3763,
          3902..3903, 3967..3967, 4145..4145, 4155..4156, 4182..4183,
          4228..4228, 6070..6070, 6078..6085, 6087..6088, 6435..6438,
          6441..6443, 6448..6449, 6451..6456, 6681..6682, 6741..6741,
          6743..6743, 6765..6770, 6916..6916, 6974..6977, 7042..7042,
          7073..7073, 7078..7079, 7143..7143, 7146..7148, 7150..7150,
          7204..7211, 7220..7221, 7393..7393, 7415..7415, 43043..43044,
          43047..43047, 43136..43137, 43188..43203, 43346..43346,
          43395..43395, 43444..43445, 43450..43451, 43454..43455,
          43567..43568, 43571..43572, 43597..43597, 43755..43755,
          43758..43759, 43765..43765, 44003..44004, 44006..44007,
          44009..44010, 44012..44012, 69632..69632, 69634..69634,
          69762..69762, 69808..69810, 69815..69816, 69932..69932,
          69957..69958, 70018..70018, 70067..70069, 70079..70079,
          70094..70094, 70188..70190, 70194..70195, 70368..70370,
          70402..70403, 70463..70463, 70465..70468, 70471..70472,
          70475..70476, 70498..70499, 70585..70586, 70602..70602,
          70604..70605, 70709..70711, 70720..70721, 70725..70725,
          70833..70834, 70841..70841, 70843..70844, 70846..70846,
          70849..70849, 71088..71089, 71096..71099, 71102..71102,
          71216..71218, 71227..71228, 71230..71230, 71340..71340,
          71342..71343, 71454..71454, 71462..71462, 71724..71726,
          71736..71736, 71985..71989, 71991..71992, 72000..72000,
          72002..72002, 72145..72147, 72156..72159, 72164..72164,
          72249..72249, 72279..72280, 72343..72343, 72751..72751,
          72766..72766, 72873..72873, 72881..72881, 72884..72884,
          73098..73102, 73107..73108, 73110..73110, 73461..73462,
          73475..73475, 73524..73525, 73534..73535, 90410..90412,
          94033..94087 },
      L |->
          UNION {
          4352..4447, 43360..43388 },
      V |->
          UNION {
          4448..4519, 55216..55238, 93539..93539, 93543..93546 },
      T |->
          UNION {
          4520..4607, 55243..55291 },
      LV |->
          {44032 + 28 * k : k \in 0..398},
      LVT |->
          (44032..55203) \ {44032 + 28 * k : k \in 0..398},
      Extended_Pictographic |->
          UNION {
          169..169, 174..174, 8252..8252, 8265..8265, 8482..8482,
          8505..8505, 8596..8601, 8617..8618, 8986..8987, 9000..9000,
          9096..9096, 9167..9167, 9193..9203, 9208..9210, 9410..9410,
          9642..9643, 9654..9654, 9664..9664, 9723..9726, 9728..9733,
          9735..9746, 9748..9861, 9872..9989, 9992..10002, 10004..10004,
          10006..10006, 10013..10013, 10017..10017, 10024..10024,
          10035..10036, 10052..10052, 10055..10055, 10060..10060,
          10062..10062, 10067..10069, 10071..10071, 10083..10087,
          10133..10135, 10145..10145, 10160..10160, 10175..10175,
          10548..10549, 11013..11015, 11035..11036, 11088..11088,
          11093..11093, 12336..12336, 12349..12349, 12951..12951,
          12953..12953, 126976..127231, 127245..127247, 127279..127279,
          127340..127345, 127358..127359, 127374..127374, 127377..127386,
          127405..127461, 127489..127503, 127514..127514, 127535..127535,
          127538..127546, 127548..127551, 127561..127994, 128000..128317,
          128326..128591, 128640..128767, 128884..128895, 128981..129023,
          129036..129039, 129096..129103, 129114..129119, 129160..129167,
          129198..129279, 129292..129338, 129340..129349, 129351..129791,
          130048..131069 },
      InCB_Consonant |->
          UNION {
          2325..2361, 2392..2399, 2424..2431, 2453..2472, 2474..2480,
          2482..2482, 2486..2489, 2524..2525, 2527..2527, 2544..2545,
          2709..2728, 2730..2736, 2738..2739, 2741..2745, 2809..2809,
          2837..2856, 2858..2864, 2866..2867, 2869..2873, 2908..2909,
          2911..2911, 2929..2929, 3093..3112, 3114..3129, 3160..3162,
          3349..3386 } ]

(* The value of a character: Any for a printable ASCII character, the     *)
(* table's for any other.                                                  *)
value_in(t, c) ==
    IF \E v \in DOMAIN t : c \in t[v] THEN CHOOSE v \in DOMAIN t : c \in t[v]
    ELSE "Any"

gcb(c) == IF c >= 32 /\ c <= 126 THEN "Any" ELSE value_in(GCB, c)

(* The values of the characters of a text, in order. *)
RECURSIVE gcbs(_)
gcbs(s) == IF s = <<>> THEN <<>> ELSE <<gcb(Head(s))>> \o gcbs(Tail(s))

(* k holds the values of the characters of a text.  An emoji, then any     *)
(* number of Extend, ends at position i.                                   *)
RECURSIVE emoji_before(_, _)
emoji_before(k, i) ==
    IF i < 1 THEN FALSE
    ELSE IF k[i] = "Extend" THEN emoji_before(k, i - 1)
    ELSE k[i] = "Extended_Pictographic"

(* The number of regional indicators in a row that end at position i. *)
RECURSIVE regional_indicators(_, _)
regional_indicators(k, i) ==
    IF i < 1 \/ k[i] # "Regional_Indicator" THEN 0
    ELSE 1 + regional_indicators(k, i - 1)

(* is_incb_linker: the characters of Indic_Conjunct_Break=Linker, the      *)
(* viramas of Devanagari, Bengali, Gujarati, Oriya, Telugu and Malayalam.  *)
is_incb_linker(c) == c \in {2381, 2509, 2765, 2893, 3149, 3405}

(* InCB_Extend: the characters of Indic_Conjunct_Break=Extend, which are   *)
(* those of the values Extend and ZWJ other than the linkers and U+200C;   *)
(* v is the value of c.                                                    *)
InCB_Extend(c, v) == v \in {"Extend", "ZWJ"} /\ c # 8204 /\ ~is_incb_linker(c)

(* handle_incb_consonant, looking back from position i of the text s: a    *)
(* consonant, then linkers and extenders with a linker among them, end at  *)
(* position i; `linked` tells that a linker has been passed.               *)
RECURSIVE incb_consonant_before(_, _, _, _)
incb_consonant_before(s, k, i, linked) ==
    IF i < 1 THEN FALSE
    ELSE IF is_incb_linker(s[i]) THEN incb_consonant_before(s, k, i - 1, TRUE)
    ELSE IF InCB_Extend(s[i], k[i]) THEN incb_consonant_before(s, k, i - 1, linked)
    ELSE linked /\ k[i] = "InCB_Consonant"

(* No cluster ends between positions i and i + 1 of the text s (rules GB3  *)
(* to GB13, GB9c among them).                                              *)
joined(s, k, i) ==
    IF k[i] = "CR" /\ k[i + 1] = "LF" THEN TRUE
    ELSE IF k[i] \in {"Control", "CR", "LF"} \/ k[i + 1] \in {"Control", "CR", "LF"}
    THEN FALSE
    ELSE \/ k[i] = "L" /\ k[i + 1] \in {"L", "V", "LV", "LVT"}
         \/ k[i] \in {"LV", "V"} /\ k[i + 1] \in {"V", "T"}
         \/ k[i] \in {"LVT", "T"} /\ k[i + 1] = "T"
         \/ k[i + 1] \in {"Extend", "ZWJ", "SpacingMark"}
         \/ k[i] = "Prepend"
         \/ k[i + 1] = "InCB_Consonant" /\ incb_consonant_before(s, k, i, FALSE)
         \/ k[i] = "ZWJ" /\ k[i + 1] = "Extended_Pictographic" /\ emoji_before(k, i - 1)
         \/ k[i] = "Regional_Indicator" /\ k[i + 1] = "Regional_Indicator"
            /\ regional_indicators(k, i) % 2 = 1

(* The clusters of s from position i on, where one begins. *)
RECURSIVE clusters(_, _, _)
clusters(s, k, i) ==
    IF i > Len(s) THEN <<>>
    ELSE LET last == CHOOSE j \in i..Len(s) :
                         /\ j = Len(s) \/ ~joined(s, k, j)
                         /\ \A m \in i..(j - 1) : joined(s, k, m)
         IN  <<SubSeq(s, i, last)>> \o clusters(s, k, last + 1)

graphemes(s) == clusters(s, gcbs(s), 1)

----------------------------------------------------------------------------
(* convert_case: t.to_case(Case::Camel).  The text is cut into words at    *)
(* the default boundaries, found between its grapheme clusters: the        *)
(* delimiters (underscore, hyphen, space: removed), between a lowercase    *)
(* and an uppercase letter, before the last capital of an acronym that a   *)
(* lowercase letter follows, and between a letter and a digit in either    *)
(* order; empty words are dropped; the first word is lowercased, every     *)
(* other word capitalised, and the words are joined.                       *)

(* grapheme_is_lowercase / grapheme_is_uppercase: the two conversions of   *)
(* the cluster differ and the cluster is the one of them.                  *)
is_lowercase(g) == g = str_to_lowercase(g) /\ str_to_uppercase(g) # g

is_uppercase(g) == g = str_to_uppercase(g) /\ str_to_lowercase(g) # g

(* grapheme_is_digit: every character is an ASCII digit. *)
is_digit(g) == \A i \in 1..Len(g) : g[i] \in 48..57

(* Boundary::Underscore, Hyphen, Space *)
is_delimiter(g) == g \in {<<95>>, <<45>>, <<32>>}

(* The split decision at cluster i of s: "consume" (a delimiter),          *)
(* "before" (LowerUpper, LowerDigit, UpperDigit, Acronym, DigitLower,      *)
(* DigitUpper between the cluster before and this one) or "none".          *)
split_point(s, i) ==
    IF is_delimiter(s[i]) THEN "consume"
    ELSE IF i < 2 THEN "none"
    ELSE IF is_lowercase(s[i - 1]) /\ (is_uppercase(s[i]) \/ is_digit(s[i]))
    THEN "before"
    ELSE IF is_uppercase(s[i - 1])
            /\ \/ is_digit(s[i])
               \/ i < Len(s) /\ is_uppercase(s[i]) /\ is_lowercase(s[i + 1])
    THEN "before"
    ELSE IF is_digit(s[i - 1]) /\ (is_lowercase(s[i]) \/ is_uppercase(s[i]))
    THEN "before"
    ELSE "none"

(* words(s, p, i, word, acc): the clusters of s from i on are added to the *)
(* word at hand or begin a new one, as the split points p say.             *)
RECURSIVE words(_, _, _, _, _)
words(s, p, i, word, acc) ==
    IF i > Len(s) THEN Append(acc, word)
    ELSE IF p[i] = "none" THEN words(s, p, i + 1, word \o s[i], acc)
    ELSE IF p[i] = "consume" THEN words(s, p, i + 1, <<>>, Append(acc, word))
    ELSE words(s, p, i + 1, s[i], Append(acc, word))

(* split over the clusters gs: the words, the empty ones dropped. *)
split_graphemes(gs) ==
    SelectSeq(words(gs, [i \in 1..Len(gs) |-> split_point(gs, i)], 1, <<>>, <<>>),
              LAMBDA w : w # <<>>)

segment(s) == split_graphemes(graphemes(s))

(* WordCase::Lower *)
lowercase_word(w) == str_to_lowercase(w)

(* WordCase::Capital: the first cluster's uppercase, then the rest         *)
(* lowercased.                                                             *)
capital_first(w, c) ==
    str_to_uppercase(c) \o str_to_lowercase(SubSeq(w, Len(c) + 1, Len(w)))

capital_word(w) == IF w = <<>> THEN <<>> ELSE capital_first(w, Head(graphemes(w)))

(* Pattern::Camel: the first word lowercased, every other capitalised. *)
camel(ws) ==
    [i \in DOMAIN ws |-> IF i = 1 THEN lowercase_word(ws[i]) ELSE capital_word(ws[i])]

to_case_camel(s) == concat(camel(segment(s)))

----------------------------------------------------------------------------
(* SupportedTag and its serde names (camelCase).                           *)

SupportedTag ==
    { str(<<"t","i","t","l","e">>),
      str(<<"a","r","t","i","s","t">>),
      str(<<"a","l","b","u","m">>),
      str(<<"k","e","y">>),
      str(<<"b","p","m">>),
      str(<<"g","e","n","r","e">>),
      str(<<"s","t","y","l","e">>),
      str(<<"l","a","b","e","l">>),
      str(<<"a","l","b","u","m","A","r","t">>),
      str(<<"r","e","l","e","a","s","e","D","a","t","e">>) }

(* serde_json::from_str::<SupportedTag>(&format!("\"{}\"", name)): the     *)
(* text between the quotes is read as the body of a JSON string and the    *)
(* decoded text must name a variant.                                       *)

(* The value of a hex digit of either case; -1 for any other character.   *)
hex_value(c) ==
    CASE c \in 48..57 -> c - 48
      [] c \in 65..70 -> c - 55
      [] c \in 97..102 -> c - 87
      [] OTHER -> -1

(* decode_hex_escape: the hex digits at s[k..], `left` of them still to    *)
(* read, folded into n; -1 when one of them is not there.                  *)
RECURSIVE decode_hex_escape(_, _, _, _)
decode_hex_escape(s, k, left, n) ==
    IF left = 0 THEN n
    ELSE IF k > Len(s) \/ hex_value(s[k]) < 0 THEN -1
    ELSE decode_hex_escape(s, k + 1, left - 1, n * 16 + hex_value(s[k]))

(* What the character after a backslash stands for: the quote, the         *)
(* backslash, the slash, and b, f, n, r, t for U+0008, U+000C, U+000A,     *)
(* U+000D, U+0009; -1 for any other character.                             *)
simple_escape(c) ==
    CASE c \in {34, 92, 47} -> c
      [] c = 98 -> 8
      [] c = 102 -> 12
      [] c = 110 -> 10
      [] c = 114 -> 13
      [] c = 116 -> 9
      [] OTHER -> -1

(* parse_str over the body: [ok, text].  A control character (below       *)
(* U+0020) may not stand unescaped; a bare quote (U+0022) ends the string  *)
(* before the closing quote, which then trails; a backslash (U+005C) at    *)
(* the end escapes the closing quote and the string never ends; a \u       *)
(* escape takes four hex digits, and a leading surrogate takes a trailing  *)
(* one after it.                                                           *)
RECURSIVE json_unescape(_)
json_unescape(s) ==
    LET fail == [ok |-> FALSE, text |-> <<>>]
        then(ch, k) ==
            LET r == json_unescape(SubSeq(s, k, Len(s)))
            IN  IF r.ok THEN [ok |-> TRUE, text |-> <<ch>> \o r.text] ELSE fail
    IN  IF s = <<>> THEN [ok |-> TRUE, text |-> <<>>]
        ELSE IF s[1] = 34 \/ s[1] < 32 THEN fail
        ELSE IF s[1] # 92 THEN then(s[1], 2)
        ELSE IF Len(s) < 2 THEN fail
        ELSE IF simple_escape(s[2]) >= 0 THEN then(simple_escape(s[2]), 3)
        ELSE IF s[2] # 117 THEN fail
        ELSE LET n == decode_hex_escape(s, 3, 4, 0)
                 low == decode_hex_escape(s, 9, 4, 0)
             IN  IF n < 0 THEN fail
                 ELSE IF n >= 56320 /\ n <= 57343 THEN fail
                 ELSE IF n >= 55296 /\ n <= 56319
                      THEN IF Len(s) >= 8 /\ s[7] = 92 /\ s[8] = 117
                              /\ low >= 56320 /\ low <= 57343
                           THEN then(65536 + (n - 55296) * 1024 + (low - 56320), 13)
                           ELSE fail
                 ELSE then(n, 7)

(* visit_str: the variant the decoded text names. *)
visit_str(body) ==
    IF body.ok /\ body.text \in SupportedTag
    THEN [ok |-> TRUE, tag |-> body.text]
    ELSE [ok |-> FALSE, tag |-> <<>>]

from_str_tag(name) == visit_str(json_unescape(name))

parse_tag(t) == from_str_tag(to_case_camel(t))

----------------------------------------------------------------------------
(* TaggerConfig: the fields main.rs reads or writes.                       *)

BoolOptions ==
    <<"id3v24", "overwrite", "album_art_file", "merge_genres", "camelot",
      "short_title", "match_duration", "match_by_id", "enable_shazam",
      "force_shazam", "skip_tagged", "parse_filename", "only_year",
      "multiplatform">>

ConfigFields ==
    {"path", "platforms", "tags", "threads", "strictness",
     "max_duration_difference", "filename_template", "include_subfolders"}
    \cup {BoolOptions[i] : i \in 1..Len(BoolOptions)}

(* TaggerConfig::custom_default(); the strictness is the 80 % the CLI help *)
(* documents as the default.                                               *)
custom_default ==
    [path |-> None,
     platforms |-> << str(<<"i","t","u","n","e","s">>) >>,
     tags |-> << str(<<"g","e","n","r","e">>), str(<<"s","t","y","l","e">>) >>,
     threads |-> 16,
     strictness |-> Frac(80, 100),
     max_duration_difference |-> 30,
     filename_template |-> Some("%artists% - %title%"),
     include_subfolders |-> TRUE,
     id3v24 |-> TRUE, overwrite |-> TRUE, album_art_file |-> FALSE,
     merge_genres |-> FALSE, camelot |-> FALSE, short_title |-> FALSE,
     match_duration |-> FALSE, match_by_id |-> FALSE, enable_shazam |-> FALSE,
     force_shazam |-> FALSE, skip_tagged |-> FALSE, parse_filename |-> FALSE,
     only_year |-> FALSE, multiplatform |-> FALSE]

(* The macro arm config_option!($target, $t), with the clause            *)
(* `if *$t` dropped: the CLI value is assigned whether set or not.         *)
config_option_always(target, action, t) == [target EXCEPT ![t] = action[t]]

(* config_option!($target, $t): if *$t { $target.$t = *$t; }               *)
config_option(target, action, t) ==
    IF action[t] THEN [target EXCEPT ![t] = action[t]] ELSE target

(* config_option!($target, $($t),+): one application per listed field.     *)
RECURSIVE config_options(_, _, _)
config_options(target, action, ts) ==
    IF ts = <<>> THEN target
    ELSE config_options(config_option(target, action, Head(ts)), action, Tail(ts))

(* The `// Load config` step with a file that does not load replaced by    *)
(* the default config.                                                     *)
load_config_or_default(action, file) ==
    IF is_some(action.config) /\ file.open /\ is_some(file.parsed)
    THEN [ok |-> TRUE, err |-> "", config |-> unwrap(file.parsed)]
    ELSE [ok |-> TRUE, err |-> "", config |-> custom_default]

(* The `// Load config` step.  `file` is what the file system and the     *)
(* parser answer for the referenced file: whether it opens and, if it     *)
(* does, the parsed TaggerConfig (None when it is no valid config).        *)
load_config(action, file) ==
    IF is_some(action.config)
    THEN IF ~file.open THEN [ok |-> FALSE, err |-> "io", config |-> custom_default]
         ELSE IF ~is_some(file.parsed)
              THEN [ok |-> FALSE, err |-> "serde_json", config |-> custom_default]
              ELSE [ok |-> TRUE, err |-> "", config |-> unwrap(file.parsed)]
    ELSE [ok |-> TRUE, err |-> "", config |-> custom_default]

apply_platforms(c, action) ==
    IF is_some(action.platforms)
    THEN [c EXCEPT !.platforms = split(unwrap(action.platforms), 44)]
    ELSE c

(* match from_str(..) { Ok(tag) => Some(tag), Err(_) => None } *)
some_tag(r) == IF r.ok THEN Some(r.tag) ELSE None

(* filter_map stopping at the first entry that does not parse.             *)
RECURSIVE filter_map_tags_until_invalid(_)
filter_map_tags_until_invalid(entries) ==
    IF entries = <<>> \/ ~is_some(some_tag(parse_tag(Head(entries)))) THEN <<>>
    ELSE some_tag(parse_tag(Head(entries)))
         \o filter_map_tags_until_invalid(Tail(entries))

(* .filter_map(|t| ..): the tags of the entries that parse, in order. *)
RECURSIVE filter_map_tags(_)
filter_map_tags(entries) ==
    IF entries = <<>> THEN <<>>
    ELSE some_tag(parse_tag(Head(entries))) \o filter_map_tags(Tail(entries))

(* The warn!("Invalid tag: {t}") of every entry that does not parse. *)
RECURSIVE tag_warnings(_)
tag_warnings(entries) ==
    IF entries = <<>> THEN <<>>
    ELSE (IF parse_tag(Head(entries)).ok THEN <<>>
          ELSE << [level |-> "warn", msg |-> "Invalid tag: {t}", arg |-> Head(entries)] >>)
         \o tag_warnings(Tail(entries))

apply_tags(c, action) ==
    IF is_some(action.tags)
    THEN [c EXCEPT !.tags = filter_map_tags(split(unwrap(action.tags), 44))]
    ELSE c

(* threads defaulting to the built-in value when the option is absent.     *)
apply_threads_or_default(c, action) ==
    [c EXCEPT !.threads = IF is_some(action.threads) THEN unwrap(action.threads)
                          ELSE custom_default.threads]

apply_threads(c, action) ==
    IF is_some(action.threads) THEN [c EXCEPT !.threads = unwrap(action.threads)] ELSE c

(* The largest strictness percentage the override accepts. *)
MaxStrictness == 100

(* The range check written as `>=`: 100 itself is rejected.                *)
apply_strictness_exclusive(c, action) ==
    IF is_some(action.strictness) /\ ~(unwrap(action.strictness) >= MaxStrictness)
    THEN [c EXCEPT !.strictness = Frac(unwrap(action.strictness), 100)]
    ELSE c

apply_strictness(c, action) ==
    IF is_some(action.strictness) /\ ~(unwrap(action.strictness) > MaxStrictness)
    THEN [c EXCEPT !.strictness = Frac(unwrap(action.strictness), 100)]
    ELSE c

strictness_warnings(action) ==
    IF is_some(action.strictness) /\ unwrap(action.strictness) > MaxStrictness
    THEN << [level |-> "warn", msg |-> "Invalid stricness!", arg |-> <<>>] >>
    ELSE <<>>

apply_max_duration_difference(c, action) ==
    IF is_some(action.max_duration_difference)
    THEN [c EXCEPT !.max_duration_difference = unwrap(action.max_duration_difference)]
    ELSE c

apply_filename_template(c, action) ==
    IF is_some(action.filename_template)
    THEN [c EXCEPT !.filename_template = Some(unwrap(action.filename_template))]
    ELSE c

(* The subfolder override as a plain assignment of the negated flag.       *)
apply_no_subfolders_symmetric(c, action) ==
    [c EXCEPT !.include_subfolders = ~action.no_subfolders]

apply_no_subfolders(c, action) ==
    IF action.no_subfolders THEN [c EXCEPT !.include_subfolders = FALSE] ELSE c

(* The path left as the config file or the default has it.                 *)
set_path_skipped(c, action) == c

(* line 524: config.path = Some(path.to_owned())                           *)
set_path(c, action) == [c EXCEPT !.path = Some(action.path)]

(* The `// Overrides` part of get_at_config: the steps of the code, the    *)
(* first innermost.                                                        *)
apply_overrides(base, action) ==
    apply_no_subfolders(
    apply_filename_template(
    apply_max_duration_difference(
    apply_strictness(
    apply_threads(
    config_options(
    apply_tags(
    apply_platforms(
    set_path(base, action),
        action), action), action, BoolOptions), action), action), action), action),
        action)

override_warnings(action) ==
    (IF is_some(action.tags) THEN tag_warnings(split(unwrap(action.tags), 44))
     ELSE <<>>)
    \o strictness_warnings(action)

(* Actions::get_at_config: Ok(config) with the warnings logged on the way, *)
(* or the error of opening or parsing the config file.                     *)
get_at_config(action, file) ==
    LET l == load_config(action, file)
    IN  IF ~l.ok
        THEN [ok |-> FALSE, err |-> l.err, loaded |-> l.config,
              config |-> l.config, warns |-> <<>>]
        ELSE [ok |-> TRUE, err |-> "", loaded |-> l.config,
              config |-> apply_overrides(l.config, action),
              warns |-> override_warnings(action)]

----------------------------------------------------------------------------
(* AudioFeaturesConfig and the helpers of other crates that main calls.    *)

AudioFeaturesConfig_default == [include_subfolders |-> TRUE]

(* The directory that is enumerated: files at its top and in a subfolder.  *)
TopFiles == <<"a.mp3">>

NestedFiles == <<"sub/b.mp3">>

(* AudioFileInfo::get_file_list(path, subfolders) *)
get_file_list(path, include_subfolders) ==
    IF include_subfolders THEN TopFiles \o NestedFiles ELSE TopFiles

(* onetagger_playlist::get_files_from_playlist_file: None for a file that  *)
(* is no playlist.                                                         *)
PlaylistOutcomes == {None, Some(<<"p1.mp3", "p2.mp3">>)}

----------------------------------------------------------------------------
(* Process output: bytes, and String::from_utf8_lossy over them.  Text is  *)
(* a sequence of code points.  A well-formed sequence of one to four bytes *)
(* gives its code point; otherwise the longest prefix that could still     *)
(* begin a well-formed sequence is replaced by one U+FFFD and decoding     *)
(* goes on behind it.                                                      *)

(* The width the lead byte announces (0: no lead byte). *)
utf8_char_width(b) ==
    IF b < 128 THEN 1
    ELSE IF b >= 194 /\ b <= 223 THEN 2
    ELSE IF b >= 224 /\ b <= 239 THEN 3
    ELSE IF b >= 240 /\ b <= 244 THEN 4
    ELSE 0

(* The second byte a three or four byte lead allows: no overlong form, no  *)
(* surrogate, nothing above U+10FFFF.                                      *)
second_byte_ok(bs) ==
    /\ Len(bs) >= 2
    /\ CASE bs[1] = 224 -> bs[2] >= 160 /\ bs[2] <= 191
         [] bs[1] = 237 -> bs[2] >= 128 /\ bs[2] <= 159
         [] bs[1] = 240 -> bs[2] >= 144 /\ bs[2] <= 191
         [] bs[1] = 244 -> bs[2] >= 128 /\ bs[2] <= 143
         [] OTHER -> bs[2] >= 128 /\ bs[2] <= 191

(* The number of leading bytes that are a well-formed sequence (valid) or  *)
(* the longest ill-formed prefix (not valid).                              *)
utf8_chunk(bs) ==
    LET w == utf8_char_width(bs[1])
        is_continuation(bs_, k) == k <= Len(bs_) /\ bs_[k] >= 128 /\ bs_[k] <= 191
    IN  IF w = 1 THEN [valid |-> TRUE, len |-> 1]
        ELSE IF w = 0 THEN [valid |-> FALSE, len |-> 1]
        ELSE IF ~second_byte_ok(bs) THEN [valid |-> FALSE, len |-> 1]
        ELSE IF w = 2 THEN [valid |-> TRUE, len |-> 2]
        ELSE IF ~is_continuation(bs, 3) THEN [valid |-> FALSE, len |-> 2]
        ELSE IF w = 3 THEN [valid |-> TRUE, len |-> 3]
        ELSE IF ~is_continuation(bs, 4) THEN [valid |-> FALSE, len |-> 3]
        ELSE [valid |-> TRUE, len |-> 4]

(* The code point of a well-formed sequence of n bytes. *)
code_point(bs, n) ==
    CASE n = 1 -> bs[1]
      [] n = 2 -> (bs[1] - 192) * 64 + (bs[2] - 128)
      [] n = 3 -> (bs[1] - 224) * 4096 + (bs[2] - 128) * 64 + (bs[3] - 128)
      [] n = 4 -> (bs[1] - 240) * 262144 + (bs[2] - 128) * 4096
                  + (bs[3] - 128) * 64 + (bs[4] - 128)

RECURSIVE from_utf8_lossy(_)
from_utf8_lossy(bs) ==
    IF bs = <<>> THEN <<>>
    ELSE LET c == utf8_chunk(bs)
         IN  <<IF c.valid THEN code_point(bs, c.len) ELSE 65533>>
             \o from_utf8_lossy(SubSeq(bs, c.len + 1, Len(bs)))

(* The UTF-8 bytes of a text (what reaches the terminal). *)
RECURSIVE utf8_bytes(_)
utf8_bytes(text) ==
    IF text = <<>> THEN <<>>
    ELSE LET c == text[1]
         IN  (IF c < 128 THEN <<c>>
              ELSE IF c < 2048 THEN <<192 + (c \div 64), 128 + (c % 64)>>
              ELSE IF c < 65536
                   THEN <<224 + (c \div 4096), 128 + ((c \div 64) % 64), 128 + (c % 64)>>
              ELSE <<240 + (c \div 262144), 128 + ((c \div 4096) % 64),
                     128 + ((c \div 64) % 64), 128 + (c % 64)>>)
             \o utf8_bytes(Tail(text))

(* f32::to_string of the confidence values drawn. *)
f32_to_string(c) ==
    CASE c = Frac(3, 4) -> "0.75"
      [] c = Frac(1, 2) -> "0.5"
      [] c = Frac(1, 1) -> "1"
      [] c = Frac(0, 1) -> "0"

----------------------------------------------------------------------------
(* The song downloader's command.  An argument (OsString) is a sequence of *)
(* pieces: <<"--url">>, <<url>>, the components of a path.                 *)

script_path(cwd) == <<cwd, "YoutubeToSpotify", "downloader.py">>

arg(x) == <<x>>

base_args(action, cwd) ==
    << script_path(cwd), arg("--url"), arg(action.url),
       arg("--output"), arg(action.output),
       arg("--confidence"), arg(f32_to_string(action.confidence)) >>

(* if *enable_auto_tag { --enable-auto-tag; if let Some(config) .. }       *)
auto_tag_args(action) ==
    IF action.enable_auto_tag
    THEN <<arg("--enable-auto-tag")>>
         \o (IF is_some(action.auto_tag_config)
             THEN <<arg("--auto-tag-config"), arg(unwrap(action.auto_tag_config))>>
             ELSE <<>>)
    ELSE <<>>

(* if let (Some(id), Some(secret)) = (client_id, client_secret)            *)
credentials_complete(action) ==
    is_some(action.client_id) /\ is_some(action.client_secret)

(* The credential arguments passed whenever both are given, enabled or not. *)
audio_features_args_unguarded(action) ==
    (IF action.enable_audio_features THEN <<arg("--enable-audio-features")>> ELSE <<>>)
    \o (IF credentials_complete(action)
        THEN <<arg("--client-id"), arg(unwrap(action.client_id)),
               arg("--client-secret"), arg(unwrap(action.client_secret))>>
        ELSE <<>>)

(* if *enable_audio_features { --enable-audio-features; if let (Some, Some) .. } *)
audio_features_args(action) ==
    IF action.enable_audio_features
    THEN <<arg("--enable-audio-features")>>
         \o (IF credentials_complete(action)
             THEN <<arg("--client-id"), arg(unwrap(action.client_id)),
                    arg("--client-secret"), arg(unwrap(action.client_secret))>>
             ELSE <<>>)
    ELSE <<>>

(* The command built without the `else { return Err(..) }` of the          *)
(* credential check.                                                       *)
build_command_unchecked(action, cwd) ==
    [ok |-> TRUE, err |-> <<>>,
     cmd |-> [program |-> "python",
              args |-> base_args(action, cwd) \o auto_tag_args(action)
                       \o audio_features_args(action)]]

(* `// Build the command` and `// Add optional flags`: the command, or the *)
(* error returned when audio features lack a credential.                   *)
build_command(action, cwd) ==
    [ok |-> ~(action.enable_audio_features /\ ~credentials_complete(action)),
     err |-> IF action.enable_audio_features /\ ~credentials_complete(action)
             THEN <<"Spotify client ID and secret are required for audio features">>
             ELSE <<>>,
     cmd |-> [program |-> "python",
              args |-> base_args(action, cwd) \o auto_tag_args(action)
                       \o audio_features_args(action)]]

----------------------------------------------------------------------------
(* Bounds of the inputs drawn.                                             *)

(* The most options one drawn autotagger command line supplies at once.    *)
MaxSupplied == 2

(* The most entries of a drawn --tags list.                                *)
MaxTagEntries == 2

(* The most bytes the child writes to a captured stream.                   *)
MaxBytes == 2

(* The largest value of a u8 option. *)
U8Max == 255

----------------------------------------------------------------------------
(* Command lines.                                                          *)

Autotagger_none ==
    [kind |-> "Autotagger", path |-> "music", config |-> None,
     platforms |-> None, tags |-> None, threads |-> None, strictness |-> None,
     max_duration_difference |-> None, filename_template |-> None,
     no_subfolders |-> FALSE,
     id3v24 |-> FALSE, overwrite |-> FALSE, album_art_file |-> FALSE,
     merge_genres |-> FALSE, camelot |-> FALSE, short_title |-> FALSE,
     match_duration |-> FALSE, match_by_id |-> FALSE, enable_shazam |-> FALSE,
     force_shazam |-> FALSE, skip_tagged |-> FALSE, parse_filename |-> FALSE,
     only_year |-> FALSE, multiplatform |-> FALSE]

(* Entries of a --tags list: plain, upper case with the Kelvin sign U+212A *)
(* for its K, snake case, with a \u escape, with a leading space, unknown, *)
(* empty, and with a quote.                                                *)
TagEntries ==
    { str(<<"b","p","m">>),
      <<8490>> \o str(<<"E","Y">>),
      str(<<"a","l","b","u","m","_","a","r","t">>),
      str(<<"k","e","\\","u","0","0","7","9">>),
      str(<<" ","k","e","y">>),
      str(<<"x">>),
      <<>>,
      str(<<"k","e","y","\"">>) }

RECURSIVE join(_, _)
join(es, sep) ==
    IF Len(es) = 1 THEN es[1] ELSE es[1] \o <<sep>> \o join(Tail(es), sep)

TagLists ==
    {join(es, 44) : es \in UNION {[1..n -> TagEntries] : n \in 1..MaxTagEntries}}

PlatformLists ==
    { str(<<"i","t","u","n","e","s",",","d","e","e","z","e","r">>),
      str(<<",">>) }

(* One supplied option: the field of the action and its value.            *)
FlagOptions ==
    {<<BoolOptions[i], TRUE>> : i \in 1..Len(BoolOptions)} \cup {<<"no_subfolders", TRUE>>}

ValueOptions ==
    {<<"platforms", Some(p)>> : p \in PlatformLists}
    \cup {<<"tags", Some(t)>> : t \in {str(<<"b","p","m">>), str(<<"x",",","K","E","Y">>)}}
    \cup {<<"threads", Some(n)>> : n \in {1}}
    \cup {<<"strictness", Some(n)>> : n \in {80, 150}}
    \cup {<<"max_duration_difference", Some(n)>> : n \in {0}}
    \cup {<<"filename_template", Some(t)>> : t \in {"%title%"}}

RECURSIVE supplying(_, _)
supplying(S, k) ==
    IF k = 0 THEN S
    ELSE S \cup supplying({[a EXCEPT ![o[1]] = o[2]] :
                              a \in S, o \in FlagOptions \cup ValueOptions}, k - 1)

(* Autotagger command lines, with or without a config file: at most        *)
(* MaxSupplied options at once, or any strictness, or any drawn tag list.  *)
AutotaggerActions ==
    LET with_config == {[Autotagger_none EXCEPT !.config = c] :
                           c \in {None, Some("config.json")}}
        with_path == {[a EXCEPT !.path = p] :
                         a \in with_config, p \in {"music", "list.m3u"}}
    IN  supplying(with_config, MaxSupplied)
        \cup {[a EXCEPT !.strictness = Some(n)] : a \in with_path, n \in 0..U8Max}
        \cup {[a EXCEPT !.tags = Some(t)] : a \in with_path, t \in TagLists}

AudiofeaturesActions ==
    [kind : {"Audiofeatures"}, path : {"music", "list.m3u"}, config : {"af.json"},
     client_id : {"id"}, client_secret : {"secret"}, no_subfolders : BOOLEAN]

SongDownloaderActions ==
    [kind : {"SongDownloader"}, url : {"https://youtu.be/x"}, output : {"out"},
     confidence : {Frac(3, 4), Frac(1, 2)},
     enable_auto_tag : BOOLEAN, auto_tag_config : {None, Some("at.json")},
     enable_audio_features : BOOLEAN,
     client_id : {None, Some("id")}, client_secret : {None, Some("secret")}]

Actions == AutotaggerActions \cup AudiofeaturesActions \cup SongDownloaderActions

(* Cli: an action without dump flag, or the dump flags with or without an  *)
(* action beside them.                                                     *)
Clis ==
    {[action |-> Some(a), autotagger_config |-> FALSE, audiofeatures_config |-> FALSE] :
        a \in Actions}
    \cup [action : {None, Some(Autotagger_none)} \cup {Some(a) : a \in AudiofeaturesActions},
          autotagger_config : BOOLEAN, audiofeatures_config : BOOLEAN]

----------------------------------------------------------------------------
(* What the environment can answer.                                        *)

config_all_on ==
    [path |-> Some("elsewhere"),
     platforms |-> << str(<<"d","e","e","z","e","r">>) >>,
     tags |-> << str(<<"b","p","m">>) >>,
     threads |-> 4,
     strictness |-> Frac(1, 2),
     max_duration_difference |-> 10,
     filename_template |-> None,
     include_subfolders |-> TRUE,
     id3v24 |-> TRUE, overwrite |-> TRUE, album_art_file |-> TRUE,
     merge_genres |-> TRUE, camelot |-> TRUE, short_title |-> TRUE,
     match_duration |-> TRUE, match_by_id |-> TRUE, enable_shazam |-> TRUE,
     force_shazam |-> TRUE, skip_tagged |-> TRUE, parse_filename |-> TRUE,
     only_year |-> TRUE, multiplatform |-> TRUE]

config_all_off ==
    [path |-> None,
     platforms |-> <<>>,
     tags |-> <<>>,
     threads |-> 8,
     strictness |-> Frac(9, 10),
     max_duration_difference |-> 5,
     filename_template |-> Some("%track% %title%"),
     include_subfolders |-> FALSE,
     id3v24 |-> FALSE, overwrite |-> FALSE, album_art_file |-> FALSE,
     merge_genres |-> FALSE, camelot |-> FALSE, short_title |-> FALSE,
     match_duration |-> FALSE, match_by_id |-> FALSE, enable_shazam |-> FALSE,
     force_shazam |-> FALSE, skip_tagged |-> FALSE, parse_filename |-> FALSE,
     only_year |-> FALSE, multiplatform |-> FALSE]

(* The config file of the autotagger: it cannot be opened, it does not     *)
(* parse, or it parses to a TaggerConfig.                                  *)
TaggerConfigFiles ==
    {[open |-> FALSE, parsed |-> None], [open |-> TRUE, parsed |-> None]}
    \cup {[open |-> TRUE, parsed |-> Some(c)] :
             c \in {custom_default, config_all_on, config_all_off}}

AudioFeaturesConfigFiles ==
    {[open |-> FALSE, parsed |-> None], [open |-> TRUE, parsed |-> None]}
    \cup {[open |-> TRUE, parsed |-> Some([include_subfolders |-> b])] : b \in BOOLEAN}

(* Bytes: an ASCII letter, a two byte lead, a continuation byte and a      *)
(* three byte lead.                                                        *)
Bytes == {104, 195, 169, 226}

ByteTexts == UNION {[1..n -> Bytes] : n \in 0..MaxBytes}

(* What Command::output returns: an I/O error (the interpreter could not   *)
(* be started), or the exit code and the two captured streams.             *)
Outputs ==
    [started : {TRUE}, code : {0, 1}, stdout : ByteTexts, stderr : {<<104>>}]
    \cup [started : {TRUE}, code : {0, 1}, stdout : {<<104, 104>>}, stderr : ByteTexts]
    \cup {[started |-> FALSE, code |-> 0, stdout |-> <<>>, stderr |-> <<>>]}

----------------------------------------------------------------------------
(* How main ends.                                                          *)

Ok == [kind |-> "Ok", msg |-> "", args |-> <<>>]

Err(msg, args) == [kind |-> "Err", msg |-> msg, args |-> args]

Panic(msg) == [kind |-> "panic", msg |-> msg, args |-> <<>>]

Log(level, msg, a) == [level |-> level, msg |-> msg, arg |-> a]

action == unwrap(cli.action)

(* The state main starts in, whatever the command line. *)
at_entry ==
    /\ pc = "main"
    /\ logging = FALSE
    /\ loaded = None
    /\ config = None
    /\ subfolders = None
    /\ spotify = None
    /\ file_list_call = None
    /\ files = None
    /\ created_dirs = {}
    /\ cmd = None
    /\ spawns = 0
    /\ output = None
    /\ stdout = <<>>
    /\ log = <<>>
    /\ result = None
    /\ env = {}
    /\ rx = None
    /\ engine = None
    /\ start = None
    /\ renamer = None
    /\ auth = None
    /\ exit_code = None
    /\ ui = None

Init == cli \in Clis /\ at_entry

----------------------------------------------------------------------------
(* main, lines 19-43: the dump flags, the missing action, logging setup    *)
(* and the dispatch on the action.                                         *)

(* The dispatch with the song downloader entered past its script check.   *)
first_step_unchecked(a) ==
    CASE a.kind = "Autotagger" -> "at_config"
      [] a.kind = "Audiofeatures" -> "af_config"
      [] a.kind = "SongDownloader" -> "sd_mkdir"
      [] a.kind = "Renamer" -> "rn_generate"
      [] a.kind = "AuthorizeSpotify" -> "as_url"
      [] a.kind = "QueryUrl" -> "qu_log"
      [] a.kind = "Server" -> "sv_start"

(* lines 43-44: match &action: where the flow of each action begins.       *)
first_step(a) ==
    CASE a.kind = "Autotagger" -> "at_config"
      [] a.kind = "Audiofeatures" -> "af_config"
      [] a.kind = "SongDownloader" -> "sd_script"
      [] a.kind = "Renamer" -> "rn_generate"
      [] a.kind = "AuthorizeSpotify" -> "as_url"
      [] a.kind = "QueryUrl" -> "qu_log"
      [] a.kind = "Server" -> "sv_start"

(* lines 22-31, with the dump flags looked at only when no action is given. *)
dumped_without_action(c) ==
    IF is_some(c.action) THEN None
    ELSE IF c.autotagger_config THEN Some(custom_default)
    ELSE IF c.audiofeatures_config THEN Some(AudioFeaturesConfig_default)
    ELSE None

(* lines 22-31: the default config a dump flag asks for, the autotagger's  *)
(* first; None when no dump flag is set.                                   *)
dumped(c) ==
    IF c.autotagger_config THEN Some(custom_default)
    ELSE IF c.audiofeatures_config THEN Some(AudioFeaturesConfig_default)
    ELSE None

Main_Start ==
    /\ pc = "main"
    /\ IF is_some(dumped(cli))
       THEN /\ stdout' = Append(stdout, [fmt |-> "{config}", arg |-> unwrap(dumped(cli))])
            /\ result' = Some(Ok)
            /\ pc' = "done"
            /\ UNCHANGED <<logging, log>>
       ELSE IF ~is_some(cli.action)
       THEN /\ stdout' = Append(stdout,
                   [fmt |-> "No action. Use onetagger-cli --help to get print help.",
                    arg |-> <<>>])
            /\ result' = Some(Ok)
            /\ pc' = "done"
            /\ UNCHANGED <<logging, log>>
       ELSE /\ logging' = TRUE
            /\ log' = Append(log, Log("info", "Starting OneTagger", <<>>))
            /\ pc' = first_step(action)
            /\ UNCHANGED <<stdout, result>>
    /\ UNCHANGED <<cli, loaded, config, subfolders, spotify, file_list_call, files,
                   created_dirs, cmd, spawns, output, env, run_vars>>

----------------------------------------------------------------------------
(* Actions::Autotagger *)

(* What a config file that does not load is found to be. *)
config_fact(file) == IF ~file.open THEN "config.unreadable" ELSE "config.invalid"

loads(file) == file.open /\ is_some(file.parsed)

(* What reading the config file adds to the facts found: nothing when no   *)
(* file is referenced or when the file loads.                              *)
config_facts(referenced, file) ==
    IF referenced /\ ~loads(file) THEN {config_fact(file)} ELSE {}

(* line 46-47: .expect(..), debug!(config) on what get_at_config gave *)
expect_config(r) ==
    IF r.ok
    THEN /\ loaded' = Some(r.loaded)
         /\ config' = Some(r.config)
         /\ log' = log \o r.warns \o <<Log("debug", "{:?}", r.config)>>
         /\ pc' = "at_files"
         /\ UNCHANGED result
    ELSE /\ result' = Some(Panic("Failed loading config file!"))
         /\ pc' = "panicked"
         /\ UNCHANGED <<loaded, config, log>>

(* line 46-47: get_at_config().expect(..), debug!(config) *)
AT_GetConfig ==
    /\ pc = "at_config"
    /\ \E file \in TaggerConfigFiles :
          /\ env' = env \cup config_facts(is_some(action.config), file)
          /\ expect_config(get_at_config(action, file))
    /\ UNCHANGED <<cli, logging, subfolders, spotify, file_list_call, files,
                   created_dirs, cmd, spawns, output, stdout, run_vars>>

(* lines 50-54 with unwrap_or_default in place of expect: a file that is   *)
(* no playlist gives no files, and the run goes on.                        *)
GetFiles_lenient(include_subfolders, next) ==
    \E is_file \in BOOLEAN :
        IF is_file
        THEN \E playlist \in PlaylistOutcomes :
                /\ files' = IF is_some(playlist) THEN Some(unwrap(playlist)) ELSE Some(<<>>)
                /\ pc' = next
                /\ env' = env \cup (IF is_some(playlist) THEN {"path.is_file"}
                                    ELSE {"path.is_file", "playlist.invalid"})
                /\ UNCHANGED <<file_list_call, result>>
        ELSE /\ env' = env \cup {"path.is_dir"}
             /\ file_list_call' =
                    Some([path |-> action.path, include_subfolders |-> include_subfolders])
             /\ files' = Some(get_file_list(action.path, include_subfolders))
             /\ pc' = next
             /\ UNCHANGED result

(* lines 50-54 and 76-80: the playlist file or the directory listing.      *)
GetFiles(include_subfolders, next) ==
    \E is_file \in BOOLEAN :
        IF is_file
        THEN \E playlist \in PlaylistOutcomes :
                IF is_some(playlist)
                THEN /\ files' = Some(unwrap(playlist))
                     /\ pc' = next
                     /\ env' = env \cup {"path.is_file"}
                     /\ UNCHANGED <<file_list_call, result>>
                ELSE /\ result' = Some(Panic("Not a valid playlist file"))
                     /\ pc' = "panicked"
                     /\ env' = env \cup {"path.is_file", "playlist.invalid"}
                     /\ UNCHANGED <<file_list_call, files>>
        ELSE /\ env' = env \cup {"path.is_dir"}
             /\ file_list_call' =
                    Some([path |-> action.path, include_subfolders |-> include_subfolders])
             /\ files' = Some(get_file_list(action.path, include_subfolders))
             /\ pc' = next
             /\ UNCHANGED result

AT_GetFiles ==
    /\ pc = "at_files"
    /\ GetFiles(unwrap(config).include_subfolders, "at_tag")
    /\ UNCHANGED <<cli, logging, loaded, config, subfolders, spotify,
                   created_dirs, cmd, spawns, output, stdout, log, run_vars>>

----------------------------------------------------------------------------
(* Actions::Audiofeatures *)

(* lines 67-70: `// Cli subfolders override` *)
cli_subfolders(include_subfolders, no_subfolders) ==
    IF no_subfolders THEN FALSE ELSE include_subfolders

(* lines 64-70 *)
AF_LoadConfig ==
    /\ pc = "af_config"
    /\ \E file \in AudioFeaturesConfigFiles :
          IF ~file.open
          THEN /\ result' = Some(Panic("Failed reading config file!"))
               /\ pc' = "panicked"
               /\ env' = env \cup {config_fact(file)}
               /\ UNCHANGED <<config, subfolders>>
          ELSE IF ~is_some(file.parsed)
          THEN /\ result' = Some(Panic("Failed parsing config file!"))
               /\ pc' = "panicked"
               /\ env' = env \cup {config_fact(file)}
               /\ UNCHANGED <<config, subfolders>>
          ELSE /\ config' = file.parsed
               /\ subfolders' = Some(cli_subfolders(unwrap(file.parsed).include_subfolders,
                                                    action.no_subfolders))
               /\ pc' = "af_auth"
               /\ UNCHANGED <<result, env>>
    /\ UNCHANGED <<cli, logging, loaded, spotify, file_list_call, files,
                   created_dirs, cmd, spawns, output, stdout, log, run_vars>>

(* What Spotify::try_cached_token can answer: no cached token, or one.     *)
CachedTokens == {None, Some("token")}

(* lines 72-73 with the answer of try_cached_token taken as it comes.      *)
authorized_unchecked(token) == TRUE

(* lines 72-73: .expect(..) goes on only with a cached token.              *)
authorized(token) == is_some(token)

Unauthorized ==
    Panic("Spotify unauthorized, please run the authorize-spotify option or login to Spotify in UI at least once!")

(* lines 72-73: Spotify::try_cached_token(..).expect(..) *)
AF_Auth ==
    /\ pc = "af_auth"
    /\ \E token \in CachedTokens :
          /\ env' = env \cup (IF is_some(token) THEN {} ELSE {"token.missing"})
          /\ IF authorized(token)
             THEN /\ spotify' = token
                  /\ pc' = "af_files"
                  /\ UNCHANGED result
             ELSE /\ result' = Some(Unauthorized)
                  /\ pc' = "panicked"
                  /\ UNCHANGED spotify
    /\ UNCHANGED <<cli, logging, loaded, config, subfolders, file_list_call, files,
                   created_dirs, cmd, spawns, output, stdout, log, run_vars>>

AF_GetFiles ==
    /\ pc = "af_files"
    /\ GetFiles(unwrap(subfolders), "af_tag")
    /\ UNCHANGED <<cli, logging, loaded, config, subfolders, spotify,
                   created_dirs, cmd, spawns, output, stdout, log, run_vars>>

----------------------------------------------------------------------------
(* Actions::SongDownloader *)

(* lines 126-136: the script path under the current directory, and the     *)
(* check that the script exists.                                           *)
SD_CheckScript ==
    /\ pc = "sd_script"
    /\ \E cwd \in {None, Some("cwd")}, exists \in BOOLEAN :
          IF ~is_some(cwd)
          THEN /\ ~exists
               /\ result' = Some(Err("io: current_dir", <<>>))
               /\ pc' = "failed"
               /\ env' = env \cup {"cwd.error"}
          ELSE IF ~exists
          THEN /\ result' = Some(Err("Song downloader script not found at {:?}",
                                     <<script_path(unwrap(cwd))>>))
               /\ pc' = "failed"
               /\ env' = env \cup {"script.absent"}
          ELSE /\ pc' = "sd_mkdir"
               /\ env' = env \cup {"script.exists"}
               /\ UNCHANGED result
    /\ log' = Append(log, Log("info", "Starting song downloader for URL: {}", <<action.url>>))
    /\ UNCHANGED <<cli, logging, loaded, config, subfolders, spotify, file_list_call, files,
                   created_dirs, cmd, spawns, output, stdout, run_vars>>

(* line 139: std::fs::create_dir_all(output)? *)
SD_CreateDir ==
    /\ pc = "sd_mkdir"
    /\ \E created \in BOOLEAN :
          IF created
          THEN /\ created_dirs' = created_dirs \cup {action.output}
               /\ pc' = "sd_build"
               /\ UNCHANGED <<result, env>>
          ELSE /\ result' = Some(Err("io: create_dir_all", <<>>))
               /\ pc' = "failed"
               /\ env' = env \cup {"output.uncreatable"}
               /\ UNCHANGED created_dirs
    /\ UNCHANGED <<cli, logging, loaded, config, subfolders, spotify, file_list_call, files,
                   cmd, spawns, output, stdout, log, run_vars>>

(* lines 142-164 *)
SD_BuildCommand ==
    /\ pc = "sd_build"
    /\ LET b == build_command(action, "cwd")
       IN  IF b.ok
           THEN /\ cmd' = Some(b.cmd)
                /\ pc' = "sd_run"
                /\ UNCHANGED result
           ELSE /\ result' = Some(Err(b.err[1], <<>>))
                /\ pc' = "failed"
                /\ UNCHANGED cmd
    /\ UNCHANGED <<cli, logging, loaded, config, subfolders, spotify, file_list_call, files,
                   created_dirs, spawns, output, stdout, log, env, run_vars>>

(* line 167: cmd.output()? *)
SD_Run ==
    /\ pc = "sd_run"
    /\ spawns' = spawns + 1
    /\ \E out \in Outputs :
          IF out.started
          THEN /\ output' = Some(out)
               /\ pc' = "sd_exited"
               /\ UNCHANGED result
          ELSE /\ result' = Some(Err("io: spawn", <<>>))
               /\ pc' = "failed"
               /\ UNCHANGED output
    /\ UNCHANGED <<cli, logging, loaded, config, subfolders, spotify, file_list_call, files,
                   created_dirs, cmd, stdout, log, env, run_vars>>

(* ExitStatus::success *)
success(out) == out.code = 0

(* The report of a failed child with the error carrying its stderr text.   *)
failure_report_carrying(out) ==
    [log |-> <<Log("error", "Failed to download songs: {}", from_utf8_lossy(out.stderr))>>,
     result |-> Err("Failed to download songs", <<from_utf8_lossy(out.stderr)>>),
     pc |-> "failed"]

(* The report of a failed child that runs the command again.               *)
failure_report_retry(out) ==
    [log |-> <<Log("error", "Failed to download songs: {}", from_utf8_lossy(out.stderr))>>,
     result |-> Err("Failed to download songs", <<>>),
     pc |-> "sd_run"]

(* lines 173-174: error!(.. stderr ..); return Err(anyhow!(..))            *)
failure_report(out) ==
    [log |-> <<Log("error", "Failed to download songs: {}", from_utf8_lossy(out.stderr))>>,
     result |-> Err("Failed to download songs", <<>>),
     pc |-> "failed"]

(* lines 170-171: info!(..); println!("{}", from_utf8_lossy(stdout))       *)
success_report(out) ==
    [log |-> <<Log("info", "Songs downloaded successfully!", <<>>)>>,
     stdout |-> <<[fmt |-> "{}", arg |-> from_utf8_lossy(out.stdout)]>>]

(* lines 169-175 *)
SD_Report ==
    /\ pc = "sd_exited"
    /\ IF success(unwrap(output))
       THEN /\ log' = log \o success_report(unwrap(output)).log
            /\ stdout' = stdout \o success_report(unwrap(output)).stdout
            /\ result' = Some(Ok)
            /\ pc' = "done"
       ELSE /\ log' = log \o failure_report(unwrap(output)).log
            /\ result' = Some(failure_report(unwrap(output)).result)
            /\ pc' = failure_report(unwrap(output)).pc
            /\ UNCHANGED stdout
    /\ UNCHANGED <<cli, logging, loaded, config, subfolders, spotify, file_list_call, files,
                   created_dirs, cmd, spawns, output, env, run_vars>>

----------------------------------------------------------------------------

Next ==
    \/ Main_Start
    \/ AT_GetConfig
    \/ AT_GetFiles
    \/ AF_LoadConfig
    \/ AF_Auth
    \/ AF_GetFiles
    \/ SD_CheckScript
    \/ SD_CreateDir
    \/ SD_BuildCommand
    \/ SD_Run
    \/ SD_Report

Spec == Init /\ [][Next]_vars

----------------------------------------------------------------------------
(* The delegated engines (Tagger::tag_files, AudioFeatures::start_tagging) *)
(* and the loop of main that drains their progress channel.                *)

(* Most progress events one engine sends. *)
MaxEvents == 2

(* A progress event, as far as main looks at it (it prints it with {:?}).  *)
Statuses == {"ok", "error"}

(* What an engine can have to send before it closes the channel.           *)
EventSeqs == UNION {[1..n -> Statuses] : n \in 0..MaxEvents}

(* timestamp!(): the milliseconds of the system clock, a u128.  The clock  *)
(* may be set between two readings: Timestamps are the readings before the *)
(* loop, EndTimestamps those after it, later and earlier ones.             *)
Timestamps == {5000}

EndTimestamps == {4000, 4999, 5000, 6999}

(* The channel an engine hands back: nothing queued, the sender alive.     *)
channel == [queue |-> <<>>, closed |-> FALSE]

(* The engine as started: it runs beside main, owns the sender, and        *)
(* `pending` is what it will send before it drops the sender.              *)
start_engine(kind, c, fs, events) ==
    [kind |-> kind, config |-> c, files |-> fs,
     pending |-> events, sent |-> <<>>, state |-> "running"]

(* lines 56-57: let rx = Tagger::tag_files(..); let start = timestamp!()   *)
AT_TagFiles ==
    /\ pc = "at_tag"
    /\ \E events \in EventSeqs :
          engine' = Some(start_engine("Tagger", unwrap(config), unwrap(files), events))
    /\ rx' = Some(channel)
    /\ \E now \in Timestamps : start' = Some(now)
    /\ pc' = "at_monitor"
    /\ UNCHANGED <<cli, logging, loaded, config, subfolders, spotify, file_list_call, files,
                   created_dirs, cmd, spawns, output, stdout, log, result, env,
                   renamer, auth, exit_code, ui>>

(* lines 82-83: let rx = AudioFeatures::start_tagging(config, spotify,     *)
(* files); let start = timestamp!()                                        *)
AF_StartTagging ==
    /\ pc = "af_tag"
    /\ \E events \in EventSeqs :
          engine' = Some(start_engine("AudioFeatures",
                                      [config |-> unwrap(config), spotify |-> unwrap(spotify)],
                                      unwrap(files), events))
    /\ rx' = Some(channel)
    /\ \E now \in Timestamps : start' = Some(now)
    /\ pc' = "af_monitor"
    /\ UNCHANGED <<cli, logging, loaded, config, subfolders, spotify, file_list_call, files,
                   created_dirs, cmd, spawns, output, stdout, log, result, env,
                   renamer, auth, exit_code, ui>>

running == is_some(engine) /\ unwrap(engine).state = "running"

(* The engine sends its next progress event.                               *)
Engine_Send ==
    /\ running
    /\ unwrap(engine).pending # <<>>
    /\ LET e == unwrap(engine)
           status == Head(e.pending)
       IN  /\ rx' = Some([unwrap(rx) EXCEPT !.queue = Append(@, status)])
           /\ engine' = Some([e EXCEPT !.pending = Tail(@), !.sent = Append(@, status)])
    /\ UNCHANGED <<cli, pc, logging, loaded, config, subfolders, spotify, file_list_call,
                   files, created_dirs, cmd, spawns, output, stdout, log, result, env,
                   start, renamer, auth, exit_code, ui>>

(* The engine is done and drops the sender: the channel is closed.         *)
Engine_Close ==
    /\ running
    /\ unwrap(engine).pending = <<>>
    /\ rx' = Some([unwrap(rx) EXCEPT !.closed = TRUE])
    /\ engine' = Some([unwrap(engine) EXCEPT !.state = "finished"])
    /\ UNCHANGED <<cli, pc, logging, loaded, config, subfolders, spotify, file_list_call,
                   files, created_dirs, cmd, spawns, output, stdout, log, result, env,
                   start, renamer, auth, exit_code, ui>>

(* The engine stops sending and keeps the sender (a worker that hangs).    *)
Engine_Stall ==
    /\ running
    /\ engine' = Some([unwrap(engine) EXCEPT !.state = "stalled"])
    /\ UNCHANGED <<cli, pc, logging, loaded, config, subfolders, spotify, file_list_call,
                   files, created_dirs, cmd, spawns, output, stdout, log, result, env,
                   rx, start, renamer, auth, exit_code, ui>>

(* `for status in rx` gives the last queued event first.                   *)
received_newest(ch) == ch.queue[Len(ch.queue)]

(* `for status in rx`: the next item is the oldest queued event.           *)
received(ch) == Head(ch.queue)

(* `for status in rx` ends as soon as nothing is queued.                   *)
disconnected_when_idle(ch) == ch.queue = <<>>

(* `for status in rx` ends when nothing is queued and the sender is gone.  *)
disconnected(ch) == ch.queue = <<>> /\ ch.closed

(* lines 58-60, 84-86: for status in rx { debug!("{status:?}") }           *)
Monitor_Recv ==
    /\ pc \in {"at_monitor", "af_monitor"}
    /\ unwrap(rx).queue # <<>>
    /\ log' = Append(log, Log("debug", "{status:?}", received(unwrap(rx))))
    /\ rx' = Some([unwrap(rx) EXCEPT !.queue = Tail(@)])
    /\ UNCHANGED <<cli, pc, logging, loaded, config, subfolders, spotify, file_list_call,
                   files, created_dirs, cmd, spawns, output, stdout, result, env,
                   engine, start, renamer, auth, exit_code, ui>>

(* A u128 is the sequence of its 13 digits to the base 1000, the least     *)
(* significant first; u128(n) is that of a number n of the model.          *)
RECURSIVE digits(_, _)
digits(n, k) == IF k = 0 THEN <<>> ELSE <<n % 1000>> \o digits(n \div 1000, k - 1)

u128(n) == digits(n, 13)

(* 2^128 = 340282366920938463463374607431768211456 *)
TwoPow128 == <<456, 211, 768, 431, 607, 374, 463, 463, 938, 920, 366, 282, 340>>

(* a - b digit by digit, for b not above a. *)
RECURSIVE digits_sub(_, _, _)
digits_sub(a, b, borrow) ==
    IF a = <<>> THEN <<>>
    ELSE <<(Head(a) + 1000 - Head(b) - borrow) % 1000>>
         \o digits_sub(Tail(a), Tail(b), IF Head(a) < Head(b) + borrow THEN 1 ELSE 0)

(* The subtraction of two u128 as a build without overflow checks computes *)
(* it: the difference modulo 2^128.                                        *)
wrapping_sub(a, b) ==
    IF a >= b THEN u128(a - b) ELSE digits_sub(TwoPow128, u128(b - a), 0)

(* (timestamp!() - start) / 1000, the subtraction having been made: the    *)
(* division drops the last digit.                                          *)
seconds(now, then) == Tail(wrapping_sub(now, then)) \o <<0>>

(* lines 61, 87: info!("Tagging finished, took: {} seconds.", ..), and     *)
(* main falls through to Ok(()) on line 243.  When the clock reads less    *)
(* than it did before the loop the subtraction overflows: a build with     *)
(* overflow checks panics there, any other build goes on with the wrapped  *)
(* difference.                                                             *)
Monitor_Finish ==
    /\ pc \in {"at_monitor", "af_monitor"}
    /\ disconnected(unwrap(rx))
    /\ \E now \in EndTimestamps, overflow_checks \in BOOLEAN :
          IF now < unwrap(start) /\ overflow_checks
          THEN /\ result' = Some(Panic("attempt to subtract with overflow"))
               /\ pc' = "panicked"
               /\ UNCHANGED log
          ELSE /\ log' = Append(log, Log("info", "Tagging finished, took: {} seconds.",
                                         seconds(now, unwrap(start))))
               /\ result' = Some(Ok)
               /\ pc' = "done"
    /\ UNCHANGED <<cli, logging, loaded, config, subfolders, spotify, file_list_call,
                   files, created_dirs, cmd, spawns, output, stdout, env,
                   rx, engine, start, renamer, auth, exit_code, ui>>

----------------------------------------------------------------------------
(* Actions::Renamer *)

(* lines 208-217 *)
RenamerConfig(a) ==
    [path |-> a.path,
     out_dir |-> a.output,
     template |-> a.template,
     copy |-> a.copy,
     subfolders |-> ~a.no_subfolders,
     overwrite |-> a.overwrite,
     separator |-> a.separator,
     keep_subfolders |-> a.keep_subfolders]

(* TemplateParser / Renamer::generate: a template naming an unknown field  *)
(* does not render.                                                        *)
Templates == {"%title%", "%nofield%"}

renders(template) == template # "%nofield%"

(* AudioFileInfo::load_files_iter(&config.path, config.subfolders, ..)     *)
load_files_iter(path, with_subfolders) == get_file_list(path, with_subfolders)

(* Where Renamer::generate sends one file.                                 *)
destination(from, c) ==
    [dir |-> IF is_some(c.out_dir) THEN unwrap(c.out_dir) ELSE c.path,
     template |-> c.template,
     of |-> from]

(* Renamer::generate: the mapping (from, to) of every file, or an error;   *)
(* it touches no file.                                                     *)
generate(fs, c) ==
    IF renders(c.template)
    THEN Some([i \in 1..Len(fs) |-> <<fs[i], destination(fs[i], c)>>])
    ELSE None

(* lines 208-220: the config, the files, renamer.generate(..).expect(..)   *)
RN_Generate ==
    /\ pc = "rn_generate"
    /\ LET c == RenamerConfig(action)
           names == generate(load_files_iter(c.path, c.subfolders), c)
       IN  /\ renamer' = Some([config |-> c, names |-> names, generate_calls |-> 1,
                               rename_calls |-> <<>>, fs_ops |-> <<>>])
           /\ IF is_some(names)
              THEN /\ pc' = "rn_names"
                   /\ UNCHANGED result
              ELSE /\ result' = Some(Panic("Failed generating filenames!"))
                   /\ pc' = "panicked"
    /\ UNCHANGED <<cli, logging, loaded, config, subfolders, spotify, file_list_call, files,
                   created_dirs, cmd, spawns, output, stdout, log, env,
                   rx, engine, start, auth, exit_code, ui>>

(* line 223, with the test dropped: the names are never only shown.        *)
only_preview_never(a) == FALSE

(* line 223: if *preview *)
only_preview(a) == a.preview

(* lines 224-226: println!("{}. {:?} -> {:?}", i + 1, from, to)            *)
preview_lines(names) ==
    [i \in 1..Len(names) |->
        [fmt |-> "{}. {:?} -> {:?}", arg |-> <<i, names[i][1], names[i][2]>>]]

(* What Renamer::rename does to the files: one copy or one move per pair   *)
(* of the mapping it is given.                                             *)
rename_ops(names, c) ==
    [i \in 1..Len(names) |->
        [op |-> IF c.copy THEN "copy" ELSE "move", from |-> names[i][1], to |-> names[i][2]]]

(* lines 223-230: the preview, or renamer.rename(&names, &config).expect   *)
RN_Apply ==
    /\ pc = "rn_names"
    /\ LET r == unwrap(renamer)
           names == unwrap(r.names)
       IN  IF only_preview(action)
           THEN /\ stdout' = stdout \o preview_lines(names)
                /\ result' = Some(Ok)
                /\ pc' = "done"
                /\ UNCHANGED renamer
           ELSE \E ok \in BOOLEAN, reached \in 0..Len(names) :
                   /\ ok => reached = Len(names)
                   /\ renamer' = Some([r EXCEPT
                          !.rename_calls = Append(@, [names |-> names, config |-> r.config]),
                          !.fs_ops = @ \o SubSeq(rename_ops(names, r.config), 1, reached)])
                   /\ IF ok
                      THEN result' = Some(Ok) /\ pc' = "done"
                      ELSE result' = Some(Panic("Failed renaming!")) /\ pc' = "panicked"
                   /\ UNCHANGED stdout
    /\ UNCHANGED <<cli, logging, loaded, config, subfolders, spotify, file_list_call, files,
                   created_dirs, cmd, spawns, output, log, env,
                   rx, engine, start, auth, exit_code, ui>>

----------------------------------------------------------------------------
(* Actions::AuthorizeSpotify *)

(* The flow as its first step leaves it: what was reached so far, the      *)
(* threads main spawned, the background server, the redirects handed to    *)
(* main, and the token.                                                    *)
auth_started(url) ==
    [url |-> url,
     trace |-> IF is_some(url) THEN <<"Start", "AuthUrlGenerated">> ELSE <<"Start">>,
     threads |-> 0,
     server |-> "none",
     context |-> None,
     input |-> None,
     handoffs |-> 0,
     code |-> None,
     token |-> None]

(* line 182: match prompt *)
path_taken(a) == IF a.prompt THEN "PromptPath" ELSE "ServerPath"

(* lines 179-180: Spotify::generate_auth_url(..).expect(..); println!(..)  *)
AS_GenerateUrl ==
    /\ pc = "as_url"
    /\ \E ok \in BOOLEAN :
          IF ok
          THEN LET url == <<"authorize", action.client_id>>
               IN  /\ auth' = Some(auth_started(Some(url)))
                   /\ stdout' = Append(stdout,
                         [fmt |-> "\nPlease go to the following URL and authorize 1T:\n{auth_url}",
                          arg |-> url])
                   /\ pc' = IF path_taken(action) = "PromptPath" THEN "as_prompt" ELSE "as_spawn"
                   /\ UNCHANGED result
          ELSE /\ auth' = Some(auth_started(None))
               /\ result' = Some(Panic("Failed generating auth URL!"))
               /\ pc' = "panicked"
               /\ UNCHANGED stdout
    /\ UNCHANGED <<cli, logging, loaded, config, subfolders, spotify, file_list_call, files,
                   created_dirs, cmd, spawns, output, log, env,
                   rx, engine, start, renamer, exit_code, ui>>

(* What read_line can read: the redirect URL with its code, between a      *)
(* no-break space U+00A0 and the line end U+000D U+000A; a line with no    *)
(* code in it and an empty line, each ended by the newline U+000A the user *)
(* typed; and nothing at all when the input is at its end.                 *)
Lines ==
    { <<160>>
      \o str(<<"h","t","t","p",":","/","/","1","2","7",".","0",".","0",".","1","/",
               "?","c","o","d","e","=","c","0","d","e">>)
      \o <<13, 10>>,
      str(<<"h","t","t","p",":","/","/","1","2","7",".","0",".","0",".","1","/">>) \o <<10>>,
      <<10>>,
      <<>> }

(* The characters with the Unicode White_Space property: U+0009 to U+000D, *)
(* the space, U+0085, U+00A0, U+1680, U+2000 to U+200A, U+2028, U+2029,    *)
(* U+202F, U+205F and U+3000.                                              *)
WhiteSpace ==
    (9..13) \cup {32, 133, 160, 5760} \cup (8192..8202)
    \cup {8232, 8233, 8239, 8287, 12288}

(* char::is_whitespace *)
is_whitespace(c) == c \in WhiteSpace

RECURSIVE trim_start(_)
trim_start(s) ==
    IF s # <<>> /\ is_whitespace(Head(s)) THEN trim_start(Tail(s)) ELSE s

RECURSIVE trim_end(_)
trim_end(s) ==
    IF s # <<>> /\ is_whitespace(s[Len(s)]) THEN trim_end(SubSeq(s, 1, Len(s) - 1)) ELSE s

(* str::trim *)
trim(s) == trim_end(trim_start(s))

(* The authorization code a redirect URL carries, if any: what follows    *)
(* the first ?code= of the URL.  code_at: the marker stands at i.          *)
code_at(url, i) == SubSeq(url, i, i + 5) = str(<<"?","c","o","d","e","=">>)

response_code(url) ==
    IF \E i \in 1..(Len(url) - 6) : code_at(url, i)
    THEN Some(SubSeq(url,
                     6 + CHOOSE i \in 1..(Len(url) - 6) :
                             code_at(url, i) /\ \A j \in 1..(i - 1) : ~code_at(url, j),
                     Len(url)))
    ELSE None

(* lines 182-184: the prompt arm; println!(..) writes the prompt before    *)
(* anything is read.                                                       *)
AS_Prompt ==
    /\ pc = "as_prompt"
    /\ stdout' = Append(stdout,
          [fmt |-> "\nEnter the URL you were redirected to and press enter: ", arg |-> <<>>])
    /\ auth' = Some([unwrap(auth) EXCEPT !.trace = Append(@, "PromptPath")])
    /\ pc' = "as_read"
    /\ UNCHANGED <<cli, logging, loaded, config, subfolders, spotify, file_list_call, files,
                   created_dirs, cmd, spawns, output, log, result, env,
                   rx, engine, start, renamer, exit_code, ui>>

(* lines 185-186: stdin().read_line(&mut url).expect(..): main blocks here *)
(* until a line, the end of the input or a read error arrives.             *)
AS_ReadLine ==
    /\ pc = "as_read"
    /\ \E read \in {None} \cup {Some(l) : l \in Lines} :
          IF is_some(read)
          THEN /\ auth' = Some([unwrap(auth) EXCEPT !.input = Some(unwrap(read))])
               /\ pc' = "as_code"
               /\ UNCHANGED result
          ELSE /\ result' = Some(Panic("Couldn't read from stdin!"))
               /\ pc' = "panicked"
               /\ UNCHANGED auth
    /\ UNCHANGED <<cli, logging, loaded, config, subfolders, spotify, file_list_call, files,
                   created_dirs, cmd, spawns, output, stdout, log, env,
                   rx, engine, start, renamer, exit_code, ui>>

(* Spotify::auth_token_code / Spotify::auth_server: the exchange of a code *)
(* for a token; it fails without a code, and it can fail with one.         *)
exchange(code, granted) ==
    IF is_some(code) /\ granted THEN Some([token_for |-> unwrap(code)]) ELSE None

(* line 187: Spotify::auth_token_code(client, url.trim()).expect(..)       *)
AS_TokenCode ==
    /\ pc = "as_code"
    /\ \E granted \in BOOLEAN :
          LET a == unwrap(auth)
              token == exchange(response_code(trim(unwrap(a.input))), granted)
          IN  IF is_some(token)
              THEN /\ auth' = Some([a EXCEPT !.trace = Append(@, "TokenExchanged"),
                                             !.token = Some([by |-> "main", is |-> unwrap(token)])])
                   /\ pc' = "as_exit"
                   /\ UNCHANGED result
              ELSE /\ result' = Some(Panic("Spotify authentication failed!"))
                   /\ pc' = "panicked"
                   /\ UNCHANGED auth
    /\ UNCHANGED <<cli, logging, loaded, config, subfolders, spotify, file_list_call, files,
                   created_dirs, cmd, spawns, output, stdout, log, env,
                   rx, engine, start, renamer, exit_code, ui>>

(* line 191, spawning a second thread beside the first.                    *)
spawn_twice(n) == n + 2

(* line 191: std::thread::spawn *)
spawn(n) == n + 1

(* lines 192-197: the StartContext the background thread starts with       *)
auth_context(a) ==
    [server_mode |-> TRUE, start_path |-> None, expose |-> a.expose, browser |-> FALSE]

(* lines 190-198: std::thread::spawn(move || start_all(..).expect(..))     *)
AS_Spawn ==
    /\ pc = "as_spawn"
    /\ auth' = Some([unwrap(auth) EXCEPT
                        !.trace = Append(@, "ServerPath"),
                        !.threads = spawn(@),
                        !.server = "starting",
                        !.context = Some(auth_context(action))])
    /\ pc' = "as_server"
    /\ UNCHANGED <<cli, logging, loaded, config, subfolders, spotify, file_list_call, files,
                   created_dirs, cmd, spawns, output, stdout, log, result, env,
                   rx, engine, start, renamer, exit_code, ui>>

waiting == pc = "as_server" /\ ~is_some(unwrap(auth).code)

(* lines 192-197, in the spawned thread: onetagger_ui::start_all(..)       *)
(* starts listening, or fails and .expect(..) panics in that thread alone. *)
Server_Start ==
    /\ is_some(auth) /\ unwrap(auth).server = "starting"
    /\ \E ok \in BOOLEAN :
          auth' = Some([unwrap(auth) EXCEPT !.server = IF ok THEN "listening" ELSE "panicked"])
    /\ UNCHANGED <<cli, pc, logging, loaded, config, subfolders, spotify, file_list_call,
                   files, created_dirs, cmd, spawns, output, stdout, log, result, env,
                   rx, engine, start, renamer, exit_code, ui>>

(* The user leaves the authorization page: no redirect will be sent.       *)
User_Abandon ==
    /\ waiting
    /\ "redirect.abandoned" \notin env
    /\ env' = env \cup {"redirect.abandoned"}
    /\ UNCHANGED <<cli, pc, logging, loaded, config, subfolders, spotify, file_list_call,
                   files, created_dirs, cmd, spawns, output, stdout, log, result, run_vars>>

(* The browser is redirected to the listener, which hands the request over *)
(* to the waiting thread; the listener serves one redirect.                *)
Redirect ==
    /\ waiting
    /\ unwrap(auth).server = "listening"
    /\ "redirect.abandoned" \notin env
    /\ \E l \in Lines :
          auth' = Some([unwrap(auth) EXCEPT !.handoffs = @ + 1,
                                            !.code = Some(response_code(trim(l))),
                                            !.server = "served"])
    /\ UNCHANGED <<cli, pc, logging, loaded, config, subfolders, spotify, file_list_call,
                   files, created_dirs, cmd, spawns, output, stdout, log, result, env,
                   rx, engine, start, renamer, exit_code, ui>>

(* line 199: Spotify::auth_server(client).expect(..) returns once the      *)
(* listener has handed over a redirect.                                    *)
AS_AuthServer ==
    /\ pc = "as_server"
    /\ is_some(unwrap(auth).code)
    /\ \E granted \in BOOLEAN :
          LET a == unwrap(auth)
              token == exchange(unwrap(a.code), granted)
          IN  IF is_some(token)
              THEN /\ auth' = Some([a EXCEPT !.trace = Append(@, "TokenExchanged"),
                                             !.token = Some([by |-> "main", is |-> unwrap(token)])])
                   /\ pc' = "as_exit"
                   /\ UNCHANGED result
              ELSE /\ result' = Some(Panic("Spotify authentication failed!"))
                   /\ pc' = "panicked"
                   /\ UNCHANGED auth
    /\ UNCHANGED <<cli, logging, loaded, config, subfolders, spotify, file_list_call, files,
                   created_dirs, cmd, spawns, output, stdout, log, env,
                   rx, engine, start, renamer, exit_code, ui>>

(* lines 202-204: info!(..); std::process::exit(0), which ends the         *)
(* background thread with the process.                                     *)
AS_Exit ==
    /\ pc = "as_exit"
    /\ log' = Append(log, Log("info", "Succesfully authorized Spotify!", <<>>))
    /\ exit_code' = Some(0)
    /\ auth' = Some([unwrap(auth) EXCEPT
                        !.server = IF @ = "none" THEN "none" ELSE "killed"])
    /\ pc' = "exited"
    /\ UNCHANGED <<cli, logging, loaded, config, subfolders, spotify, file_list_call, files,
                   created_dirs, cmd, spawns, output, stdout, result, env,
                   rx, engine, start, renamer, ui>>

----------------------------------------------------------------------------
(* Actions::QueryUrl *)

(* What get_url_info_with_confidence can answer: an error, or the          *)
(* information of the URL, with or without a description and tracklists.   *)
UrlInfos ==
    [platform : {"youtube"}, content_type : {"playlist"}, title : {"channel"},
     description : {None, Some("about")},
     video_tracklists :
         {None,
          Some(<< <<"video", <<"track 1", "track 2">> >> >>),
          Some(<< <<"video", <<"track 1">> >>,
                  <<"Youtube Channel", <<"track 2">> >>,
                  <<"Alpha", <<>> >>,
                  <<"video", <<"track 3">> >> >>)}]

(* The member names drawn, in the order of str (byte by byte). *)
KeyOrder == <<"Alpha", "Youtube Channel", "video">>

(* serde_json::Map::insert.  A value is a serde_json::Value, its kind and  *)
(* what it holds; a map is the sequence of its members in the order it     *)
(* iterates them.  The value of a key already there is replaced where it   *)
(* stands; a new key goes to its place in key order, or to the end when    *)
(* serde_json is built with preserve_order.                                *)
insert(map, key, value, preserve_order) ==
    LET key_rank(k) == CHOOSE i \in 1..Len(KeyOrder) : KeyOrder[i] = k IN
    IF \E i \in 1..Len(map) : map[i][1] = key
    THEN [i \in 1..Len(map) |-> IF map[i][1] = key THEN <<key, value>> ELSE map[i]]
    ELSE IF preserve_order THEN Append(map, <<key, value>>)
    ELSE SelectSeq(map, LAMBDA m : key_rank(m[1]) < key_rank(key))
         \o << <<key, value>> >>
         \o SelectSeq(map, LAMBDA m : key_rank(m[1]) > key_rank(key))

(* lines 112-116: each video's tracklist put under the video's title       *)
RECURSIVE insert_tracklists(_, _, _)
insert_tracklists(map, video_tracklists, preserve_order) ==
    IF video_tracklists = <<>> THEN map
    ELSE insert_tracklists(
             insert(map, Head(video_tracklists)[1],
                    [kind |-> "Array", value |-> Head(video_tracklists)[2]],
                    preserve_order),
             Tail(video_tracklists), preserve_order)

(* lines 105-116: the JSON object of the channel name and each tracklist   *)
json_output(info, preserve_order) ==
    insert_tracklists(
        insert(<<>>, "Youtube Channel", [kind |-> "String", value |-> info.title],
               preserve_order),
        unwrap(info.video_tracklists), preserve_order)

(* lines 94-118: what is printed for a URL *)
info_lines(info, preserve_order) ==
    <<[fmt |-> "\nURL Information:", arg |-> <<>>],
      [fmt |-> "Platform:     {}", arg |-> info.platform],
      [fmt |-> "Content Type: {}", arg |-> info.content_type],
      [fmt |-> "Title:        {}", arg |-> info.title]>>
    \o (IF is_some(info.description)
        THEN <<[fmt |-> "Description:  {}", arg |-> unwrap(info.description)]>>
        ELSE <<>>)
    \o (IF is_some(info.video_tracklists)
        THEN <<[fmt |-> "\nExtracted Tracklists:", arg |-> <<>>],
               [fmt |-> "{}", arg |-> json_output(info, preserve_order)]>>
        ELSE <<>>)

(* line 90: info!("Querying URL: {} with confidence: {}", ..) *)
QU_Log ==
    /\ pc = "qu_log"
    /\ log' = Append(log, Log("info", "Querying URL: {} with confidence: {}",
                              <<action.url, f32_to_string(action.confidence)>>))
    /\ pc' = "qu_query"
    /\ UNCHANGED <<cli, logging, loaded, config, subfolders, spotify, file_list_call, files,
                   created_dirs, cmd, spawns, output, stdout, result, env, run_vars>>

(* lines 92-123: get_url_info_with_confidence answers, and the answer is   *)
(* printed or returned as the error; the manifest decides whether          *)
(* serde_json's Map keeps key order or insertion order, so either is       *)
(* drawn.                                                                  *)
QU_Query ==
    /\ pc = "qu_query"
    /\ UNCHANGED log
    /\ \E answer \in {None} \cup {Some(i) : i \in UrlInfos}, preserve_order \in BOOLEAN :
          IF is_some(answer)
          THEN /\ stdout' = stdout \o info_lines(unwrap(answer), preserve_order)
               /\ result' = Some(Ok)
               /\ pc' = "done"
          ELSE /\ result' = Some(Err("Failed to get URL information: {}", <<"e">>))
               /\ pc' = "failed"
               /\ UNCHANGED stdout
    /\ UNCHANGED <<cli, logging, loaded, config, subfolders, spotify, file_list_call, files,
                   created_dirs, cmd, spawns, output, env, run_vars>>

----------------------------------------------------------------------------
(* Actions::Server *)

(* lines 234-239 *)
server_context(a) ==
    [server_mode |-> TRUE, start_path |-> a.path, expose |-> a.expose, browser |-> a.browser]

(* lines 234-239: onetagger_ui::start_all(..) is called and serves         *)
SV_Start ==
    /\ pc = "sv_start"
    /\ ui' = Some(server_context(action))
    /\ pc' = "sv_serving"
    /\ UNCHANGED <<cli, logging, loaded, config, subfolders, spotify, file_list_call, files,
                   created_dirs, cmd, spawns, output, stdout, log, result, env,
                   rx, engine, start, renamer, auth, exit_code>>

(* lines 239-243: start_all returns: .expect("Failed starting the server") *)
(* panics on an error, and main returns Ok(()) otherwise.                  *)
SV_Return ==
    /\ pc = "sv_serving"
    /\ \E ok \in BOOLEAN :
          IF ok
          THEN result' = Some(Ok) /\ pc' = "done"
          ELSE result' = Some(Panic("Failed starting the server")) /\ pc' = "panicked"
    /\ UNCHANGED <<cli, logging, loaded, config, subfolders, spotify, file_list_call, files,
                   created_dirs, cmd, spawns, output, stdout, log, env, run_vars>>

----------------------------------------------------------------------------
(* The whole of main: every kind of action, each with a few command lines, *)
(* and the dump flags beside each of them.                                 *)

MainAutotaggerActions ==
    {[Autotagger_none EXCEPT !.path = p, !.config = c, !.no_subfolders = n] :
        p \in {"music", "list.m3u"}, c \in {None, Some("config.json")}, n \in BOOLEAN}

MainSongDownloaderActions ==
    {a \in SongDownloaderActions :
        /\ a.confidence = Frac(3, 4)
        /\ a.auto_tag_config = None
        /\ ~a.enable_auto_tag
        /\ is_some(a.client_id) = is_some(a.client_secret)}

RenamerActions ==
    [kind : {"Renamer"}, path : {"music"}, output : {None, Some("renamed")},
     template : Templates, copy : BOOLEAN, no_subfolders : BOOLEAN, preview : BOOLEAN,
     overwrite : {FALSE}, separator : {", "}, keep_subfolders : {FALSE}]

AuthorizeSpotifyActions ==
    [kind : {"AuthorizeSpotify"}, client_id : {"id"}, client_secret : {"secret"},
     expose : BOOLEAN, prompt : BOOLEAN]

QueryUrlActions ==
    [kind : {"QueryUrl"}, url : {"https://youtu.be/x"}, confidence : {Frac(3, 4), Frac(1, 2)}]

ServerActions ==
    [kind : {"Server"}, expose : BOOLEAN, path : {None, Some("music")}, browser : BOOLEAN]

MainActions ==
    MainAutotaggerActions \cup AudiofeaturesActions \cup MainSongDownloaderActions
    \cup RenamerActions \cup AuthorizeSpotifyActions \cup QueryUrlActions
    \cup ServerActions

MainClis ==
    [action : {None} \cup {Some(a) : a \in MainActions},
     autotagger_config : BOOLEAN, audiofeatures_config : BOOLEAN]

InitMain == cli \in MainClis /\ at_entry

NextMain ==
    \/ Next
    \/ AT_TagFiles
    \/ AF_StartTagging
    \/ Engine_Send
    \/ Engine_Close
    \/ Engine_Stall
    \/ Monitor_Recv
    \/ Monitor_Finish
    \/ RN_Generate
    \/ RN_Apply
    \/ AS_GenerateUrl
    \/ AS_Prompt
    \/ AS_ReadLine
    \/ AS_TokenCode
    \/ AS_Spawn
    \/ Server_Start
    \/ User_Abandon
    \/ Redirect
    \/ AS_AuthServer
    \/ AS_Exit
    \/ QU_Log
    \/ QU_Query
    \/ SV_Start
    \/ SV_Return

SpecMain == InitMain /\ [][NextMain]_vars

----------------------------------------------------------------------------
(* Properties of the configuration resolution.                             *)

is_autotagger == is_some(cli.action) /\ action.kind = "Autotagger"

is_audiofeatures == is_some(cli.action) /\ action.kind = "Audiofeatures"

is_song_downloader == is_some(cli.action) /\ action.kind = "SongDownloader"

(* get_at_config has returned Ok: `loaded` is the base, `config` the result. *)
resolved == is_autotagger /\ is_some(config)

ended == pc \in {"done", "failed", "panicked"}

BoolFields == {BoolOptions[i] : i \in 1..Len(BoolOptions)}

(* C1: for each boolean option of config_option!, a set CLI flag makes the *)
(* resolved field true whatever the base, and an absent flag leaves the    *)
(* resolved field equal to the base (file or default) value.               *)
C1_BoolFlagPrecedence ==
    resolved =>
        \A t \in BoolFields :
            /\ action[t] => unwrap(config)[t] = TRUE
            /\ ~action[t] => unwrap(config)[t] = unwrap(loaded)[t]

(* A flag set over a base that has it off, beside an absent flag whose     *)
(* base has it on.                                                         *)
C1_Witness ==
    /\ resolved
    /\ action.camelot /\ ~unwrap(loaded).camelot /\ unwrap(config).camelot
    /\ ~action.overwrite /\ unwrap(loaded).overwrite /\ unwrap(config).overwrite

OptionalOverrides ==
    {"platforms", "tags", "threads", "strictness", "max_duration_difference",
     "filename_template"}

(* C2: an optional override that is not supplied leaves its field as the   *)
(* base has it, and a supplied one changes its own field only: every other *)
(* field is what resolution gives without that override.                   *)
C2_AbsentOverrideKeepsBase ==
    resolved =>
        \A f \in OptionalOverrides :
            IF ~is_some(action[f])
            THEN unwrap(config)[f] = unwrap(loaded)[f]
            ELSE \A g \in ConfigFields \ {f} :
                    unwrap(config)[g] =
                        apply_overrides(unwrap(loaded), [action EXCEPT ![f] = None])[g]

(* Over the file's values: strictness supplied and changed, threads absent *)
(* and kept.                                                               *)
C2_Witness ==
    /\ resolved
    /\ unwrap(loaded) = config_all_on
    /\ action.strictness = Some(80) /\ ~is_some(action.threads)
    /\ unwrap(config).strictness # config_all_on.strictness
    /\ unwrap(config).threads = config_all_on.threads

(* No config file and no override on the command line. *)
defaults_alone ==
    /\ is_autotagger
    /\ ~is_some(action.config)
    /\ \A f \in OptionalOverrides : ~is_some(action[f])
    /\ \A t \in BoolFields : ~action[t]
    /\ ~action.no_subfolders

(* C3 as stated: resolving from the defaults alone gives the built-in      *)
(* default configuration, equal in every field.                            *)
C3_Original == (resolved /\ defaults_alone) => unwrap(config) = custom_default

(* C3: resolving from the defaults alone gives the built-in default in     *)
(* every field but path, which is the path of the command line.            *)
C3_DefaultsExceptPath ==
    (resolved /\ defaults_alone) =>
        /\ \A g \in ConfigFields \ {"path"} : unwrap(config)[g] = custom_default[g]
        /\ unwrap(config).path = Some(action.path)

C3_Witness ==
    /\ resolved /\ defaults_alone
    /\ unwrap(config).path = Some("music")
    /\ unwrap(config).threads = custom_default.threads

has_warning(msg) == \E i \in 1..Len(log) : log[i].level = "warn" /\ log[i].msg = msg

(* C4: a strictness above 100 keeps the base strictness and logs a         *)
(* warning; one in 0..100 gives strictness/100; and whenever the config    *)
(* loads, resolution returns a configuration whatever the strictness.      *)
C4_Strictness ==
    /\ (resolved /\ is_some(action.strictness)) =>
          LET s == unwrap(action.strictness)
              r == unwrap(config).strictness
          IN  IF s > 100
              THEN r = unwrap(loaded).strictness /\ has_warning("Invalid stricness!")
              ELSE /\ r.num * 100 = s * r.den
                   /\ r.den > 0
                   /\ \A d \in 2..100 : ~(r.num % d = 0 /\ r.den % d = 0)
    /\ (is_autotagger /\ pc = "at_config") =>
          \A file \in TaggerConfigFiles :
              load_config(action, file).ok => get_at_config(action, file).ok

(* 100 itself is applied, over a base of 0.5. *)
C4_Witness ==
    /\ resolved
    /\ action.strictness = Some(100)
    /\ unwrap(loaded).strictness = [num |-> 1, den |-> 2]
    /\ unwrap(config).strictness = [num |-> 1, den |-> 1]

(* The entries of a comma separated list, by the positions of its commas.  *)
comma_position(s, k) ==
    CHOOSE i \in 1..Len(s) :
        s[i] = 44 /\ Cardinality({j \in 1..i : s[j] = 44}) = k

entry_count(s) == Cardinality({i \in 1..Len(s) : s[i] = 44}) + 1

entry(s, k) ==
    SubSeq(s,
           IF k = 1 THEN 1 ELSE comma_position(s, k - 1) + 1,
           IF k = entry_count(s) THEN Len(s) ELSE comma_position(s, k) - 1)

entries(s) == [k \in 1..entry_count(s) |-> entry(s, k)]

invalid_tag_warnings ==
    SelectSeq(log, LAMBDA l : l.level = "warn" /\ l.msg = "Invalid tag: {t}")

(* The warnings of a resolution that name an invalid tag. *)
invalid_tag_warnings_of(warns) ==
    SelectSeq(warns, LAMBDA l : l.level = "warn" /\ l.msg = "Invalid tag: {t}")

(* C5: the resolved tags are the entries of the list that parse to a known *)
(* tag, in their order; every entry that does not parse is dropped alone   *)
(* with one warning naming it; whenever the config loads, resolution       *)
(* returns a configuration whatever the entries; and parsing the same list *)
(* again yields the same result: when get_at_config has returned, the     *)
(* list applied to the resolved configuration leaves the tags as they are, *)
(* and resolved over any config file that loads it yields the same tags    *)
(* and the same warnings.                                                  *)
C5_TagList ==
    /\ (resolved /\ is_some(action.tags)) =>
          LET es == entries(unwrap(action.tags))
              valid == SelectSeq(es, LAMBDA e : parse_tag(e).ok)
              invalid == SelectSeq(es, LAMBDA e : ~parse_tag(e).ok)
          IN  /\ unwrap(config).tags = [i \in 1..Len(valid) |-> parse_tag(valid[i]).tag]
              /\ Len(unwrap(config).tags) + Len(invalid) = Len(es)
              /\ [i \in 1..Len(invalid_tag_warnings) |-> invalid_tag_warnings[i].arg]
                     = invalid
    /\ (resolved /\ pc = "at_files" /\ is_some(action.tags)) =>
          /\ apply_tags(unwrap(config), action).tags = unwrap(config).tags
          /\ \A file \in TaggerConfigFiles :
                 LET again == get_at_config(action, file)
                 IN  again.ok =>
                         /\ again.config.tags = unwrap(config).tags
                         /\ invalid_tag_warnings_of(again.warns) = invalid_tag_warnings
    /\ (is_autotagger /\ pc = "at_config") =>
          \A file \in TaggerConfigFiles :
              load_config(action, file).ok => get_at_config(action, file).ok

(* "x,KEY": the unknown first entry is dropped, the second is kept.        *)
C5_Witness ==
    /\ resolved
    /\ action.tags = Some(str(<<"x", ",", "K", "E", "Y">>))
    /\ unwrap(config).tags = << str(<<"k", "e", "y">>) >>
    /\ Len(invalid_tag_warnings) = 1

(* C6: the include_subfolders handed to the file enumeration is false when *)
(* --no-subfolders is present and the base value when it is absent, in the *)
(* autotagger and in the audiofeatures action.                             *)
C6_NoSubfolders ==
    is_some(file_list_call) =>
        /\ is_autotagger =>
              unwrap(file_list_call).include_subfolders =
                  (IF action.no_subfolders THEN FALSE
                   ELSE unwrap(loaded).include_subfolders)
        /\ is_audiofeatures =>
              unwrap(file_list_call).include_subfolders =
                  (IF action.no_subfolders THEN FALSE
                   ELSE unwrap(config).include_subfolders)

(* The flag present over a base that includes subfolders. *)
C6_Witness ==
    /\ is_autotagger /\ is_some(file_list_call)
    /\ action.no_subfolders
    /\ unwrap(loaded).include_subfolders
    /\ ~unwrap(file_list_call).include_subfolders

----------------------------------------------------------------------------
(* Properties of the song downloader.                                      *)

InvalidInvocation ==
    Err("Spotify client ID and secret are required for audio features", <<>>)

ExternalProcessFailure == Err("Failed to download songs", <<>>)

incomplete_credentials ==
    /\ is_song_downloader
    /\ action.enable_audio_features
    /\ ~(is_some(action.client_id) /\ is_some(action.client_secret))

(* The script was found and the output directory created. *)
setup_done == is_song_downloader /\ action.output \in created_dirs

(* C7 as stated: with audio features enabled and a credential missing, the *)
(* run fails with the invalid-invocation error and spawns no process.      *)
C7_Original ==
    (incomplete_credentials /\ ended) =>
        result = Some(InvalidInvocation) /\ spawns = 0

(* C7: with audio features enabled and a credential missing, no process is *)
(* ever spawned and the run fails; the failure is the invalid-invocation   *)
(* error whenever the script was found and the output directory created,   *)
(* and the earlier script or I/O error otherwise.                          *)
C7_IncompleteCredentialsNeverSpawn ==
    incomplete_credentials =>
        /\ spawns = 0
        /\ ~is_some(cmd)
        /\ pc \notin {"sd_run", "sd_exited", "done"}
        /\ ended => /\ unwrap(result).kind = "Err"
                    /\ setup_done <=> result = Some(InvalidInvocation)

(* Only the client id given: the run has failed after the directory was    *)
(* created, without a spawn.                                               *)
C7_Witness ==
    /\ incomplete_credentials
    /\ is_some(action.client_id) /\ ~is_some(action.client_secret)
    /\ pc = "failed" /\ result = Some(InvalidInvocation)
    /\ setup_done /\ spawns = 0

has_arg(x) ==
    \E i \in 1..Len(unwrap(cmd).args) : unwrap(cmd).args[i] = <<x>>

(* C8: in the command that is spawned, --client-id, --client-secret and    *)
(* --enable-audio-features are present together or not at all, and         *)
(* --auto-tag-config only with --enable-auto-tag; credentials and a config *)
(* path given without their enabling flag are not passed.                  *)
C8_CoupledArguments ==
    (is_song_downloader /\ is_some(cmd)) =>
        /\ has_arg("--client-id") <=> has_arg("--client-secret")
        /\ has_arg("--client-secret") <=> has_arg("--enable-audio-features")
        /\ has_arg("--enable-audio-features") <=> action.enable_audio_features
        /\ has_arg("--auto-tag-config") => has_arg("--enable-auto-tag")
        /\ has_arg("--enable-auto-tag") <=> action.enable_auto_tag
        /\ ~action.enable_audio_features =>
              \A i \in 1..Len(unwrap(cmd).args) :
                  unwrap(cmd).args[i] \notin {<<"id">>, <<"secret">>}
        /\ ~action.enable_auto_tag =>
              \A i \in 1..Len(unwrap(cmd).args) : unwrap(cmd).args[i] # <<"at.json">>

(* Credentials and a config path given with neither enabling flag: the     *)
(* process has been spawned without them.                                  *)
C8_Witness ==
    /\ is_song_downloader /\ is_some(cmd) /\ spawns = 1
    /\ ~action.enable_audio_features /\ ~action.enable_auto_tag
    /\ is_some(action.client_id) /\ is_some(action.client_secret)
    /\ is_some(action.auto_tag_config)
    /\ ~has_arg("--client-id") /\ ~has_arg("--auto-tag-config")

exited == is_song_downloader /\ is_some(output) /\ ended

(* C9 as stated: after a non-zero exit the run fails with an error that    *)
(* carries the captured stderr text; after a zero exit it succeeds and its *)
(* output is the captured stdout, byte for byte.                           *)
C9_Original ==
    exited =>
        IF unwrap(output).code # 0
        THEN /\ unwrap(result).kind = "Err"
             /\ \E i \in 1..Len(unwrap(result).args) :
                    utf8_bytes(unwrap(result).args[i]) = unwrap(output).stderr
        ELSE /\ result = Some(Ok)
             /\ utf8_bytes(stdout[Len(stdout)].arg) = unwrap(output).stdout

(* C9: after a non-zero exit the run fails with the fixed external-process *)
(* error, which carries no text, and the captured stderr, decoded lossily, *)
(* is written to the error log; after a zero exit the run succeeds and     *)
(* prints the captured stdout decoded lossily: byte for byte when nothing  *)
(* had to be replaced.                                                     *)
C9_ExitStatusReport ==
    exited =>
        IF unwrap(output).code # 0
        THEN /\ result = Some(ExternalProcessFailure)
             /\ pc = "failed"
             /\ log[Len(log)].level = "error"
             /\ log[Len(log)].arg = from_utf8_lossy(unwrap(output).stderr)
             /\ (\A i \in 1..Len(log[Len(log)].arg) : log[Len(log)].arg[i] # 65533)
                    => utf8_bytes(log[Len(log)].arg) = unwrap(output).stderr
             /\ stdout = <<>>
        ELSE /\ result = Some(Ok)
             /\ pc = "done"
             /\ Len(stdout) = 1
             /\ stdout[1].arg = from_utf8_lossy(unwrap(output).stdout)
             /\ (\A i \in 1..Len(stdout[1].arg) : stdout[1].arg[i] # 65533)
                    => utf8_bytes(stdout[1].arg) = unwrap(output).stdout

(* Exit code 1 with "h" on stderr: logged, and not in the error.           *)
C9_Witness ==
    /\ exited
    /\ unwrap(output).code = 1 /\ unwrap(output).stderr = <<104>>
    /\ result = Some(ExternalProcessFailure)
    /\ log[Len(log)].arg = <<104>>

(* C10: a run calls Command::output at most once, whatever the exit        *)
(* status, and exactly once when the script was found, the output          *)
(* directory created and the argument groups valid.                        *)
C10_SpawnOnce ==
    is_song_downloader =>
        /\ spawns <= 1
        /\ (ended /\ setup_done /\ ~incomplete_credentials) => spawns = 1
        /\ spawns = 1 => (setup_done /\ ~incomplete_credentials)

(* The child failed and the run ended after its single spawn. *)
C10_Witness ==
    /\ is_song_downloader /\ pc = "failed"
    /\ is_some(output) /\ unwrap(output).code = 1
    /\ spawns = 1

----------------------------------------------------------------------------
(* Properties of the progress monitor.                                     *)

monitoring == pc \in {"at_monitor", "af_monitor"}

RECURSIVE debugged(_)
(* The progress events main has taken from the channel, in the order of    *)
(* their debug! lines.                                                     *)
debugged(l) ==
    IF l = <<>> THEN <<>>
    ELSE LET rest == debugged(SubSeq(l, 1, Len(l) - 1))
             last == l[Len(l)]
         IN  IF last.level = "debug" /\ last.msg = "{status:?}"
             THEN Append(rest, last.arg) ELSE rest

consumed == debugged(log)

finished_report(e) == Log("info", "Tagging finished, took: {} seconds.", e)

reported == \E i \in 1..Len(log) : log[i].msg = "Tagging finished, took: {} seconds."

(* The events of a run and the end of its loop: what the loop has taken,   *)
(* followed by what is still queued, is what the engine sent; once the     *)
(* channel is closed the loop is never stuck: it can take a queued event   *)
(* or finish; and when it has finished, the run has ended, the engine had  *)
(* closed the channel and all the events sent were taken.                  *)
monitor_drains ==
    is_some(engine) =>
        /\ consumed \o unwrap(rx).queue = unwrap(engine).sent
        /\ (monitoring /\ unwrap(rx).closed) => ENABLED (Monitor_Recv \/ Monitor_Finish)
        /\ ~monitoring =>
              /\ ended
              /\ unwrap(rx).closed /\ unwrap(engine).pending = <<>>
              /\ consumed = unwrap(engine).sent

(* The last log line reports the whole seconds from the reading of the     *)
(* clock before the loop to a reading not before it.                       *)
elapsed_reported ==
    \E now \in EndTimestamps :
        /\ now >= unwrap(start)
        /\ log[Len(log)] = finished_report(u128((now - unwrap(start)) \div 1000))

(* C11: whatever number of progress events the engine sends before it      *)
(* closes the channel, the monitor loop takes each of them once and in the *)
(* order sent (what it has taken, followed by what is still queued, is     *)
(* what was sent); once the channel is closed the loop is never stuck: it  *)
(* can take a queued event or finish; and when it has finished, all the    *)
(* events sent were taken, the engine had closed the channel, the last log *)
(* line reports the elapsed whole seconds and main returns Ok.             *)
C11_MonitorDrains ==
    /\ monitor_drains
    /\ (is_some(engine) /\ ~monitoring) =>
          /\ pc = "done" /\ result = Some(Ok)
          /\ elapsed_reported

stalled == is_some(engine) /\ unwrap(engine).state = "stalled"

(* C12: the monitor loop ends on the closure of the channel and on nothing *)
(* else: the finished report is logged only after the engine closed the    *)
(* channel; an engine that stops sending and keeps the sender leaves main  *)
(* in the loop for good, with no result and no report: the engine can no   *)
(* longer send or close, the loop cannot finish, and once the queued       *)
(* events are taken no step of the program is possible at all (no timeout  *)
(* ends the wait).                                                         *)
C12_ClosureOnlyEnds ==
    /\ reported => is_some(rx) /\ unwrap(rx).closed
    /\ stalled =>
          /\ ~unwrap(rx).closed
          /\ monitoring /\ result = None /\ ~reported
          /\ ~ENABLED (Monitor_Finish \/ Engine_Send \/ Engine_Close \/ Engine_Stall)
          /\ unwrap(rx).queue = <<>> => ~ENABLED NextMain

(* An engine that sent one of its two events and then hung, with main      *)
(* waiting on the empty channel.                                           *)
C12_Witness ==
    /\ stalled /\ pc = "at_monitor"
    /\ Len(unwrap(engine).sent) = 1 /\ unwrap(engine).pending # <<>>
    /\ consumed = unwrap(engine).sent
    /\ unwrap(rx).queue = <<>>

----------------------------------------------------------------------------
(* Properties of the renamer flow.                                         *)

is_renamer == is_some(cli.action) /\ action.kind = "Renamer"

(* C13: in a renamer run with preview set, rename is never called and no   *)
(* file operation is made, and the run ends after printing the generated   *)
(* mapping; without preview, rename is called at most once, only after     *)
(* generate returned a mapping, and with exactly that mapping (and the     *)
(* config generate was given); files are touched by rename alone, and      *)
(* generate is called once.                                                *)
C13_PreviewNeverApplies ==
    is_some(renamer) =>
        LET r == unwrap(renamer)
        IN  /\ is_renamer
            /\ r.generate_calls = 1
            /\ Len(r.rename_calls) <= 1
            /\ action.preview =>
                  /\ r.rename_calls = <<>> /\ r.fs_ops = <<>>
                  /\ pc = "done" => stdout = preview_lines(unwrap(r.names))
            /\ r.rename_calls # <<>> =>
                  /\ ~action.preview
                  /\ is_some(r.names)
                  /\ r.rename_calls[1] = [names |-> unwrap(r.names), config |-> r.config]
                  /\ r.names = generate(load_files_iter(action.path, ~action.no_subfolders),
                                        r.config)
            /\ r.fs_ops # <<>> => r.rename_calls # <<>>
            /\ (pc = "done" /\ ~action.preview) => Len(r.rename_calls) = 1

(* A preview of a mapping of two files that ended without a rename.        *)
C13_Witness ==
    /\ is_renamer /\ action.preview /\ pc = "done"
    /\ is_some(renamer)
    /\ Len(unwrap(unwrap(renamer).names)) = 2
    /\ Len(stdout) = 2
    /\ unwrap(renamer).fs_ops = <<>>

----------------------------------------------------------------------------
(* Properties of the Spotify authorization flow.                           *)

is_authorize == is_some(cli.action) /\ action.kind = "AuthorizeSpotify"

is_prefix(s, t) == Len(s) <= Len(t) /\ s = SubSeq(t, 1, Len(s))

(* The states of a complete run of the flow for this command line.         *)
full_trace ==
    <<"Start", "AuthUrlGenerated",
      IF action.prompt THEN "PromptPath" ELSE "ServerPath", "TokenExchanged">>

token_exchanged ==
    is_some(auth) /\ \E i \in 1..Len(unwrap(auth).trace) : unwrap(auth).trace[i] = "TokenExchanged"

(* The states an authorize-spotify run has reached are always the first    *)
(* ones of Start, AuthUrlGenerated, PromptPath (with --prompt) or          *)
(* ServerPath (without), TokenExchanged, in this order; exit happens only  *)
(* with code 0 and only after TokenExchanged was reached with a token; a   *)
(* panic of the main thread leaves the flow short of TokenExchanged, with  *)
(* no token and no exit code, and no step of the program follows it.       *)
authorize_order ==
    is_some(auth) =>
        LET a == unwrap(auth)
        IN  /\ is_authorize
            /\ is_prefix(a.trace, full_trace)
            /\ token_exchanged <=> is_some(a.token)
            /\ is_some(exit_code) =>
                  /\ exit_code = Some(0)
                  /\ a.trace = full_trace /\ is_some(a.token)
                  /\ pc = "exited"
            /\ pc = "exited" => exit_code = Some(0)
            /\ pc = "panicked" =>
                  /\ result \in {Some(Panic("Failed generating auth URL!")),
                                 Some(Panic("Couldn't read from stdin!")),
                                 Some(Panic("Spotify authentication failed!"))}
                  /\ ~token_exchanged /\ exit_code = None
                  /\ ~ENABLED NextMain
            /\ pc \in {"as_prompt", "as_read", "as_code", "as_spawn", "as_server", "as_exit",
                       "exited", "panicked"}

(* A step of the flow has failed: the main thread panicked, or the         *)
(* background thread did (line 197).                                       *)
step_failed ==
    is_some(auth) /\ (pc = "panicked" \/ unwrap(auth).server = "panicked")

(* C14: an authorize-spotify run goes through Start, AuthUrlGenerated, one *)
(* of PromptPath (with --prompt) and ServerPath (without), TokenExchanged, *)
(* in this order, and exits with code 0 only after the token exchange;     *)
(* and whenever a step has failed, the flow has ended with an error.       *)
C14_AuthorizeOrder ==
    /\ authorize_order
    /\ step_failed => (pc = "panicked" /\ is_some(result))

(* No redirect can reach the waiting thread any more: the user left the    *)
(* authorization page, or the background server did not start.             *)
redirect_never ==
    /\ waiting
    /\ \/ "redirect.abandoned" \in env
       \/ unwrap(auth).server = "panicked"

(* C15: when main waits in the server path and no redirect can come any    *)
(* more, the wait is not a dead end: a step (the timeout) remains possible. *)
C15_WaitTimesOut ==
    (is_some(auth) /\ redirect_never) => ENABLED NextMain

(* C16: the server path spawns one thread, no more, and main then waits:   *)
(* auth_server returns only once a redirect was handed over; a redirect is *)
(* handed over at most once, exactly once in a run that got past the wait, *)
(* and after it the background server takes no part any more. The prompt   *)
(* path spawns no thread, has no server and no hand-over. In both paths    *)
(* the token is obtained by the main thread.                               *)
C16_OneBackgroundUnit ==
    is_some(auth) =>
        LET a == unwrap(auth)
            on_server_path == \E i \in 1..Len(a.trace) : a.trace[i] = "ServerPath"
        IN  /\ a.threads <= 1 /\ a.handoffs <= 1
            /\ action.prompt =>
                  a.threads = 0 /\ a.server = "none" /\ a.handoffs = 0 /\ a.context = None
            /\ on_server_path <=> a.threads = 1
            /\ on_server_path =>
                  a.context = Some([server_mode |-> TRUE, start_path |-> None,
                                    expose |-> action.expose, browser |-> FALSE])
            /\ pc = "as_server" => (ENABLED AS_AuthServer <=> a.handoffs = 1)
            /\ (on_server_path /\ pc # "as_server") => a.handoffs = 1
            /\ a.handoffs = 1 =>
                  /\ a.server \in {"served", "killed"}
                  /\ ~ENABLED (Redirect \/ Server_Start)
            /\ is_some(a.token) => unwrap(a.token).by = "main"

(* A server path run after its one hand-over, and the token obtained.      *)
C16_Witness ==
    /\ is_authorize /\ ~action.prompt /\ is_some(auth)
    /\ unwrap(auth).threads = 1 /\ unwrap(auth).handoffs = 1
    /\ is_some(unwrap(auth).token)
    /\ pc = "as_exit"

----------------------------------------------------------------------------
(* Properties of the dispatch.                                             *)

dump_flag == cli.autotagger_config \/ cli.audiofeatures_config

(* No flow of an action has taken a step: every variable a flow writes is  *)
(* as main found it.                                                       *)
no_flow_started ==
    /\ loaded = None /\ config = None /\ subfolders = None /\ spotify = None
    /\ file_list_call = None /\ files = None /\ created_dirs = {} /\ cmd = None
    /\ spawns = 0 /\ output = None /\ env = {}
    /\ rx = None /\ engine = None /\ start = None /\ renamer = None /\ auth = None
    /\ exit_code = None /\ ui = None

(* C17: with a dump flag set, whatever else is on the command line, main   *)
(* does one step: it prints one default config (the autotagger's for       *)
(* --autotagger-config, else the audio features one) and returns Ok,       *)
(* logging is never set up, nothing is logged, no flow of any action       *)
(* starts, and no further step is taken.                                   *)
C17_DumpFlagsOnly ==
    dump_flag =>
        /\ ~logging /\ log = <<>>
        /\ no_flow_started
        /\ pc \in {"main", "done"}
        /\ pc = "done" =>
              /\ result = Some(Ok)
              /\ stdout = <<[fmt |-> "{config}",
                             arg |-> IF cli.autotagger_config THEN custom_default
                                     ELSE AudioFeaturesConfig_default]>>
              /\ ~ENABLED NextMain

(* --audiofeatures-config beside a renamer action: the default config was  *)
(* printed and main has returned.                                          *)
C17_Witness ==
    /\ cli.audiofeatures_config /\ ~cli.autotagger_config
    /\ is_some(cli.action) /\ action.kind = "Renamer"
    /\ pc = "done" /\ result = Some(Ok)
    /\ Len(stdout) = 1

----------------------------------------------------------------------------
(* Properties of the files handed to the engines.                          *)

tagging == is_autotagger \/ is_audiofeatures

(* The include_subfolders value the flow lists the directory with: the     *)
(* resolved config's in the autotagger flow, the config file's after the   *)
(* --no-subfolders override in the audio features flow.                    *)
effective_subfolders ==
    IF is_autotagger THEN unwrap(config).include_subfolders ELSE unwrap(subfolders)

contains(s, x) == \E i \in 1..Len(s) : s[i] = x

(* C18: in the autotagger and audio features flows, a path found to be a   *)
(* regular file is read as a playlist and never listed as a directory, and *)
(* a file that is no playlist panics the run with no files and no engine   *)
(* started, then or later; any other path is listed once as a directory    *)
(* with the effective include_subfolders value, and the files of its       *)
(* subdirectories are among the result exactly when that value is true;    *)
(* an engine is started only with the files so obtained.                   *)
C18_PlaylistOrDirectory ==
    tagging =>
        /\ ~("path.is_file" \in env /\ "path.is_dir" \in env)
        /\ "path.is_file" \in env =>
              /\ file_list_call = None
              /\ IF "playlist.invalid" \in env
                 THEN /\ files = None /\ engine = None /\ rx = None
                      /\ pc = "panicked"
                      /\ result = Some(Panic("Not a valid playlist file"))
                      /\ ~ENABLED NextMain
                 ELSE files \in PlaylistOutcomes \ {None}
        /\ "path.is_dir" \in env =>
              /\ file_list_call = Some([path |-> action.path,
                                        include_subfolders |-> effective_subfolders])
              /\ files = Some(get_file_list(action.path, effective_subfolders))
              /\ \A i \in 1..Len(NestedFiles) :
                    contains(unwrap(files), NestedFiles[i]) <=> effective_subfolders
              /\ \A i \in 1..Len(TopFiles) : contains(unwrap(files), TopFiles[i])
        /\ is_some(files) => ("path.is_file" \in env \/ "path.is_dir" \in env)
        /\ is_some(engine) => (is_some(files) /\ unwrap(engine).files = unwrap(files))

(* An audio features run whose config file includes subfolders, with       *)
(* --no-subfolders: the directory was listed without its subdirectories    *)
(* and the engine started with those files.                                *)
C18_Witness ==
    /\ is_audiofeatures /\ is_some(engine)
    /\ "path.is_dir" \in env
    /\ unwrap(config).include_subfolders /\ action.no_subfolders
    /\ unwrap(engine).files = TopFiles

----------------------------------------------------------------------------
(* Properties of the config file of the two tagging flows.                 *)

config_failed == "config.unreadable" \in env \/ "config.invalid" \in env

token_consulted == is_some(spotify) \/ "token.missing" \in env

files_enumerated ==
    \/ is_some(files) \/ is_some(file_list_call)
    \/ "path.is_file" \in env \/ "path.is_dir" \in env

(* C19: in the autotagger and audio features flows, a referenced config    *)
(* file that cannot be opened or does not parse ends the run at once with  *)
(* the panic of that flow: no config, the Spotify token not consulted, no  *)
(* file enumerated, no engine started and no channel, hence no progress    *)
(* event, and no further step; the autotagger's get_at_config fails for    *)
(* exactly the referenced files that do not load; and the token, the files *)
(* and the engine are only ever reached with a config.                     *)
C19_ConfigFileFatal ==
    tagging =>
        /\ config_failed =>
              /\ pc = "panicked"
              /\ result \in (IF is_autotagger
                              THEN {Some(Panic("Failed loading config file!"))}
                              ELSE {Some(Panic(IF "config.unreadable" \in env
                                               THEN "Failed reading config file!"
                                               ELSE "Failed parsing config file!"))})
              /\ config = None
              /\ ~token_consulted /\ ~files_enumerated
              /\ engine = None /\ rx = None
              /\ log = <<Log("info", "Starting OneTagger", <<>>)>>
              /\ ~ENABLED NextMain
        /\ is_autotagger =>
              \A file \in TaggerConfigFiles :
                  get_at_config(action, file).ok <=> (~is_some(action.config) \/ loads(file))
        /\ (token_consulted \/ files_enumerated \/ is_some(engine)) =>
              (is_some(config) /\ ~config_failed)

(* An autotagger run whose config file opens and is no valid config.       *)
C19_Witness ==
    /\ is_autotagger /\ is_some(action.config)
    /\ "config.invalid" \in env
    /\ pc = "panicked"

----------------------------------------------------------------------------
(* Properties of the order of the song downloader's steps.                 *)

ScriptNotFound ==
    Err("Song downloader script not found at {:?}", <<script_path("cwd")>>)

(* C20: the song downloader checks the script, then creates the output     *)
(* directory, then validates and builds the command, then spawns: a run    *)
(* that found no script has failed with the script-not-found error with no *)
(* directory created, no command built and nothing spawned; a directory is *)
(* created only after the script was found, and it is the output           *)
(* directory; the command is built, and the invalid-invocation error       *)
(* returned, only after the directory was created; a process is spawned    *)
(* only with a built command.                                              *)
C20_DownloaderStepOrder ==
    is_song_downloader =>
        /\ "script.absent" \in env =>
              /\ pc = "failed" /\ result = Some(ScriptNotFound)
              /\ created_dirs = {} /\ cmd = None /\ spawns = 0 /\ output = None
        /\ result = Some(ScriptNotFound) => "script.absent" \in env
        /\ created_dirs # {} =>
              ("script.exists" \in env /\ created_dirs = {action.output})
        /\ pc = "sd_mkdir" => ("script.exists" \in env /\ created_dirs = {})
        /\ pc = "sd_build" => (setup_done /\ cmd = None)
        /\ pc = "sd_run" => (is_some(cmd) /\ spawns = 0)
        /\ result = Some(InvalidInvocation) => (setup_done /\ cmd = None /\ spawns = 0)
        /\ is_some(cmd) => setup_done
        /\ spawns > 0 => is_some(cmd)

(* A run that found no script, and a state of it: failed, nothing created. *)
C20_Witness ==
    /\ is_song_downloader
    /\ "script.absent" \in env
    /\ result = Some(ScriptNotFound)
    /\ created_dirs = {}

----------------------------------------------------------------------------
(* Properties of the cached Spotify token of the audio features flow.      *)

(* C21: in the audio features flow, a run that finds no cached token for   *)
(* the client id and secret panics at once: its config was parsed, no file *)
(* was enumerated, no engine started and no channel exists, and no further *)
(* step is taken; files are enumerated only with a token; and an engine is *)
(* started only in a run whose config file was parsed and whose cached     *)
(* token was obtained, and it is started with that config and that token.  *)
C21_TokenBeforeWork ==
    is_audiofeatures =>
        /\ "token.missing" \in env =>
              /\ pc = "panicked" /\ result = Some(Unauthorized)
              /\ spotify = None
              /\ is_some(config) /\ ~config_failed
              /\ ~files_enumerated
              /\ engine = None /\ rx = None
              /\ ~ENABLED NextMain
        /\ files_enumerated => is_some(spotify)
        /\ pc \in {"af_files", "af_tag", "af_monitor"} => is_some(spotify)
        /\ is_some(engine) =>
              /\ is_some(config) /\ ~config_failed
              /\ is_some(spotify) /\ "token.missing" \notin env
              /\ unwrap(engine).kind = "AudioFeatures"
              /\ unwrap(engine).config =
                    [config |-> unwrap(config), spotify |-> unwrap(spotify)]

(* A run whose config file was parsed and that found no cached token.      *)
C21_Witness ==
    /\ is_audiofeatures
    /\ is_some(config)
    /\ "token.missing" \in env
    /\ pc = "panicked"

====
